---- MODULE Spec2Model ----
(***************************************************************************)
(* A model of the MSVC wrapper pipeline of buildcache: the cache entry     *)
(* codec, the cl.exe command line parser and canonicalizer, the direct     *)
(* mode dependency ledger, the FileTracker suspension singleton, the       *)
(* version_t comparisons, the tool version probe, the compiler run on a    *)
(* miss, the build files of an input with the tracking log, and the        *)
(* parse of nested response files step by step.                            *)
(*                                                                         *)
(* Serialized data is a sequence of bytes (0..255).  Command line tokens   *)
(* and paths are strings.  Each component has its own specification; the   *)
(* variables of the other components stay at their initial values.         *)
(***************************************************************************)
EXTENDS Integers, Sequences, FiniteSets, TLC

VARIABLES
  ce_pc,      \* codec: "new", "built", "encoded", "decoded"
  ce_entry,   \* codec: the cache_entry_t handed to serialize
  ce_ver,     \* codec: the format version field of the blob
  ce_pairs,   \* codec: the (key, value) pairs of a v2 file map, in blob order
  ce_trunc,   \* codec: TRUE when the blob lost bytes at its end
  ce_blob,    \* codec: the serialized data
  ce_out,     \* codec: what deserialize returned
  t_pc,       \* tracker: "static_init", "main", "exited"
  t_enabled,  \* tracker: TRACKER_ENABLED is truthy
  t_modules,  \* tracker: the FileTracker modules loaded into the process
  t_exports,  \* tracker: the symbols the loaded module exports
  handle,     \* tracker: the module handle, or "null"
  t_resolved, \* tracker: the function pointers that are not null
  t_releases, \* tracker: the release_suppression calls made so far
  t_calls,    \* tracker: the calls into the FileTracker API, in order
  p_pc,       \* parser: "start", "parsing", "parsed", "merged", "reparsed", "inlined", "joined"
  p_argv,     \* parser: the argument list, argv[0] first
  p_cl,       \* parser: the CL environment variable
  p_clpost,   \* parser: the _CL_ environment variable
  p_fs,       \* parser: the response files on disk, name -> lines
  p_model,    \* parser: the cmdline_parser_t after parse
  p_mode,     \* parser: the MergeMode handed to merge
  p_merged,   \* parser: the list merge returned
  p_split,    \* parser: the part of argv[1..] moved into a response file
  p_alt,      \* parser: the cmdline_parser_t of the second parse
  w_pc,       \* wrapper: "constructed", "resolved", "running", "ran"
  w_version,  \* wrapper: m_tool_version.vc_version
  w_resolved, \* wrapper: how resolve_args ended ("" when it returned)
  w_include_env,   \* wrapper: the INCLUDE environment variable
  w_include_paths, \* wrapper: m_env_include_paths
  w_dependencies,  \* wrapper: m_dependencies, path -> digest
  w_disk,     \* wrapper: the files on disk, path -> content
  w_entry,    \* wrapper: the dependency records of the entry last filtered
  w_hit,      \* wrapper: what filter_cache_hit returned
  w_src_deps, \* wrapper: the includes the compiler reported, per missed input
  w_miss,     \* wrapper: the dependency records stored on the miss descriptors
  w_raised,   \* wrapper: the last call ended with an exception
  w_before,   \* wrapper: m_dependencies as the last call found it
  w_op,       \* wrapper: the last call, "filter_cache_hit" or "run_for_miss"
  v_pc,       \* version: "start", "compared"
  v_a,        \* version: the first version_t
  v_b,        \* version: the second version_t
  v_c,        \* version: the third version_t
  v_cmp,      \* version: what the six comparison operators returned, per pair
  v_packed,   \* version: the first version converted to its 64-bit value
  v_back,     \* version: the version_t built from that 64-bit value
  tv_pc,      \* tool version: "start", "probed"
  tv_host,    \* tool version: the VSCMD_ARG_HOST_ARCH environment variable
  tv_target,  \* tool version: the VSCMD_ARG_TGT_ARCH environment variable
  tv_version, \* tool version: the VCToolsVersion environment variable
  tv_path,    \* tool version: the path of the compiler
  tv_out,     \* tool version: what get_tool_version returned or threw
  r_vs,       \* run: the VS_UNICODE_OUTPUT environment variable
  r_miss,     \* run: the names of the missed inputs handed to run_for_miss
  r_outcome,  \* run: what the compiler did: return code, output, reports written
  r_runs,     \* run: the child processes started, each with its argv and environment
  r_log,      \* run: the calls on the tracking log, the runs and the reads, in order
  r_result,   \* run: what run_for_miss returned, or that it threw
  b_env,      \* build files: the TRACKER_ENABLED, TRACKER_INTERMEDIATE and TRACKER_TOOLCHAIN variables
  m_tlog,     \* build files: the tracking_log_t of the wrapper
  b_key,      \* build files: the key last handed to get_build_files
  b_files,    \* build files: the build_files_t get_build_files returned, id -> path
  b_written,  \* build files: the files write_logs wrote, path -> content
  b_op,       \* build files: the last call made, "none" before the first
  n_stack     \* nesting: the parse_file and parse_list calls in progress, innermost last

codecVars == <<ce_pc, ce_entry, ce_ver, ce_pairs, ce_trunc, ce_blob, ce_out>>

trackerVars ==
  <<t_pc, t_enabled, t_modules, t_exports, handle, t_resolved, t_releases, t_calls>>

parserVars ==
  <<p_pc, p_argv, p_cl, p_clpost, p_fs, p_model, p_mode, p_merged, p_split, p_alt>>

resolveVars == <<w_version, w_resolved>>

ledgerVars ==
  <<w_include_env, w_include_paths, w_dependencies, w_disk, w_entry, w_hit, w_src_deps,
    w_miss, w_raised, w_before, w_op>>

versionVars == <<v_pc, v_a, v_b, v_c, v_cmp, v_packed, v_back>>

toolVars == <<tv_pc, tv_host, tv_target, tv_version, tv_path, tv_out>>

runVars == <<r_vs, r_miss, r_outcome, r_runs, r_log, r_result>>

buildVars == <<b_env, m_tlog, b_key, b_files, b_written, b_op>>

nestVars == <<n_stack>>

vars ==
  <<codecVars, trackerVars, parserVars, w_pc, resolveVars, ledgerVars, versionVars,
    toolVars, runVars, buildVars, nestVars>>

\* What the actions of one component leave alone.
exceptCodec ==
  <<trackerVars, parserVars, w_pc, resolveVars, ledgerVars, versionVars, toolVars, runVars,
    buildVars, nestVars>>

exceptTracker ==
  <<codecVars, parserVars, w_pc, resolveVars, ledgerVars, versionVars, toolVars, runVars,
    buildVars, nestVars>>

exceptParser ==
  <<codecVars, trackerVars, w_pc, resolveVars, ledgerVars, versionVars, toolVars, runVars,
    buildVars, nestVars>>

exceptWrapper ==
  <<codecVars, trackerVars, versionVars, toolVars, runVars, buildVars, nestVars>>

exceptVersion ==
  <<codecVars, trackerVars, parserVars, w_pc, resolveVars, ledgerVars, toolVars, runVars,
    buildVars, nestVars>>

exceptTool ==
  <<codecVars, trackerVars, parserVars, w_pc, resolveVars, ledgerVars, versionVars, runVars,
    buildVars, nestVars>>

exceptBuild ==
  <<codecVars, trackerVars, parserVars, w_pc, resolveVars, ledgerVars, versionVars,
    toolVars, runVars, nestVars>>

\* The steps of a parse change the parser and the calls in progress.
exceptNest ==
  <<p_argv, p_cl, p_clpost, p_fs, p_mode, p_merged, p_split, p_alt, codecVars,
    trackerVars, w_pc, resolveVars, ledgerVars, versionVars, toolVars, runVars, buildVars>>

Min(a, b) == IF a < b THEN a ELSE b

(***************************************************************************)
(* Strings                                                                 *)
(***************************************************************************)

\* str.substr(pos): the tail of str from 0-based position pos.
substr(str, pos) == SubSeq(str, pos + 1, Len(str))

\* str.substr(pos, n): at most n elements from 0-based position pos.
substr_n(str, pos, n) == SubSeq(str, pos + 1, Min(Len(str), pos + n))

starts_with(str, sub_str) == substr_n(str, 0, Len(sub_str)) = sub_str

\* std::string operator< on byte strings: lexicographic, a proper prefix first.
RECURSIVE BytesLess(_, _)
BytesLess(a, b) ==
  IF Len(b) = 0 THEN FALSE
  ELSE IF Len(a) = 0 THEN TRUE
  ELSE IF Head(a) # Head(b) THEN Head(a) < Head(b)
  ELSE BytesLess(Tail(a), Tail(b))

\* The keys of a std::map<std::string, T> in iteration order.
RECURSIVE MapOrder(_)
MapOrder(keys) ==
  IF keys = {} THEN <<>>
  ELSE LET m == CHOOSE k \in keys : \A o \in keys \ {k} : BytesLess(k, o)
       IN  <<m>> \o MapOrder(keys \ {m})

\* m[key] = value on a std::map.
MapSet(m, key, value) ==
  [k \in DOMAIN m \cup {key} |-> IF k = key THEN value ELSE m[k]]

EmptyMap == [k \in {} |-> 0]

(***************************************************************************)
(* serialize:: helpers (base/serializer_utils): 32-bit little-endian       *)
(* lengths, length-prefixed strings.  A reader returns [ok, v, pos]: the   *)
(* value and the position after it, or ok = FALSE for the exception.       *)
(***************************************************************************)

Rd(v, pos) == [ok |-> TRUE, v |-> v, pos |-> pos]
RdFail == [ok |-> FALSE, v |-> 0, pos |-> 0]

\* The four bytes of a two's complement int32, least significant first.
serialize_from_int(x) ==
  LET y == IF x >= 0 THEN x ELSE (x + 2147483647) + 1
      top == (y \div 16777216) + (IF x >= 0 THEN 0 ELSE 128)
  IN  <<y % 256, (y \div 256) % 256, (y \div 65536) % 256, top>>

serialize_to_int(data, pos) ==
  IF pos + 4 > Len(data) THEN RdFail
  ELSE LET b0 == data[pos + 1]
           b1 == data[pos + 2]
           b2 == data[pos + 3]
           b3 == data[pos + 4]
           low == b0 + 256 * b1 + 65536 * b2
       IN  Rd(IF b3 < 128 THEN low + 16777216 * b3
              ELSE ((low + 16777216 * (b3 - 128)) - 2147483647) - 1,
              pos + 4)

serialize_from_string(s) == serialize_from_int(Len(s)) \o s

serialize_to_string(data, pos) ==
  LET n == serialize_to_int(data, pos)
  IN  IF ~n.ok THEN RdFail
      ELSE IF n.v < 0 \/ n.pos + n.v > Len(data) THEN RdFail
      ELSE Rd(substr_n(data, n.pos, n.v), n.pos + n.v)

RECURSIVE ConcatStrings(_)
ConcatStrings(v) ==
  IF v = <<>> THEN <<>>
  ELSE serialize_from_string(Head(v)) \o ConcatStrings(Tail(v))

serialize_from_vector(v) == serialize_from_int(Len(v)) \o ConcatStrings(v)

RECURSIVE ReadStrings(_, _, _, _)
ReadStrings(data, pos, n, acc) ==
  IF n <= 0 THEN Rd(acc, pos)
  ELSE LET s == serialize_to_string(data, pos)
       IN  IF ~s.ok THEN RdFail
           ELSE ReadStrings(data, s.pos, n - 1, Append(acc, s.v))

serialize_to_vector(data, pos) ==
  LET n == serialize_to_int(data, pos)
  IN  IF ~n.ok THEN RdFail ELSE ReadStrings(data, n.pos, n.v, <<>>)

\* A string-to-string std::map: the pairs are read in blob order and
\* stored with result[key] = value.
RECURSIVE ReadPairs(_, _, _, _)
ReadPairs(data, pos, n, acc) ==
  IF n <= 0 THEN Rd(acc, pos)
  ELSE LET k == serialize_to_string(data, pos)
       IN  IF ~k.ok THEN RdFail
           ELSE LET v == serialize_to_string(data, k.pos)
                IN  IF ~v.ok THEN RdFail
                    ELSE ReadPairs(data, v.pos, n - 1, MapSet(acc, k.v, v.v))

serialize_to_map(data, pos) ==
  LET n == serialize_to_int(data, pos)
  IN  IF ~n.ok THEN RdFail ELSE ReadPairs(data, n.pos, n.v, EmptyMap)

(***************************************************************************)
(* comp:: (base/compressor): the original size, then the data as runs of   *)
(* (count, byte).  decompress refuses data that does not expand to the     *)
(* stated size.                                                            *)
(***************************************************************************)

RECURSIVE RunLength(_, _)
RunLength(s, b) ==
  IF s = <<>> \/ Head(s) # b THEN 0 ELSE 1 + RunLength(Tail(s), b)

RECURSIVE EncodeRuns(_)
EncodeRuns(s) ==
  IF s = <<>> THEN <<>>
  ELSE LET n == Min(RunLength(s, Head(s)), 255)
       IN  <<n, Head(s)>> \o EncodeRuns(substr(s, n))

comp_compress(s) == serialize_from_int(Len(s)) \o EncodeRuns(s)

RECURSIVE DecodeRuns(_)
DecodeRuns(d) ==
  IF Len(d) < 2 THEN <<>>
  ELSE [i \in 1..d[1] |-> d[2]] \o DecodeRuns(substr(d, 2))

comp_decompress(d) ==
  LET n == serialize_to_int(d, 0)
  IN  IF ~n.ok THEN RdFail
      ELSE LET s == DecodeRuns(substr(d, 4))
           IN  IF Len(d) % 2 # 0 \/ Len(s) # n.v THEN RdFail ELSE Rd(s, Len(d))

(***************************************************************************)
(* cache_entry_t                                                           *)
(***************************************************************************)

ENTRY_DATA_FORMAT_VERSION == 4

\* cache_entry_t::comp_mode_t
COMP_NONE == 0
COMP_ALL == 1

\* hasher_t::hash_t::SIZE
HASH_SIZE == 2

cache_entry_t(file_ids, dependencies, compression_mode, std_out, std_err, return_code) ==
  [file_ids |-> file_ids,
   dependency_records |-> dependencies,
   compression_mode |-> compression_mode,
   std_out |-> std_out,
   std_err |-> std_err,
   return_code |-> return_code,
   valid |-> TRUE]

\* The default-constructed entry; it stands for "no entry" after an error.
NoEntry ==
  [file_ids |-> <<>>, dependency_records |-> EmptyMap, compression_mode |-> COMP_NONE,
   std_out |-> <<>>, std_err |-> <<>>, return_code |-> 0, valid |-> FALSE]

\* A plausible slip: the loop collects file.second instead of file.first.
v2_files_to_vector_values(files) ==
  [i \in 1..Cardinality(DOMAIN files) |-> files[MapOrder(DOMAIN files)[i]]]

\* The range-for over a std::map visits the keys in ascending order.
v2_files_to_vector(files) == MapOrder(DOMAIN files)

\* from_string(hash_t): the raw bytes of the digest.
from_hash(x) == x

\* to_string(data, pos): the next HASH_SIZE bytes.
to_hash(data, pos) ==
  IF pos + HASH_SIZE > Len(data) THEN RdFail
  ELSE Rd(substr_n(data, pos, HASH_SIZE), pos + HASH_SIZE)

RECURSIVE ConcatRecords(_, _)
ConcatRecords(x, keys) ==
  IF keys = <<>> THEN <<>>
  ELSE serialize_from_string(Head(keys)) \o from_hash(x[Head(keys)])
         \o ConcatRecords(x, Tail(keys))

from_map(x) ==
  serialize_from_int(Cardinality(DOMAIN x)) \o ConcatRecords(x, MapOrder(DOMAIN x))

RECURSIVE ReadRecords(_, _, _, _)
ReadRecords(data, pos, n, acc) ==
  IF n <= 0 THEN Rd(acc, pos)
  ELSE LET key == serialize_to_string(data, pos)
       IN  IF ~key.ok THEN RdFail
           ELSE LET value == to_hash(data, key.pos)
                IN  IF ~value.ok THEN RdFail
                    ELSE ReadRecords(data, value.pos, n - 1, MapSet(acc, key.v, value.v))

to_map(data, pos) ==
  LET size == serialize_to_int(data, pos)
  IN  IF ~size.ok THEN RdFail ELSE ReadRecords(data, size.pos, size.v, EmptyMap)

\* A plausible slip: std_err is written before std_out.
serialize_swapped(e) ==
  serialize_from_int(ENTRY_DATA_FORMAT_VERSION)
    \o serialize_from_int(e.compression_mode)
    \o serialize_from_vector(e.file_ids)
    \o (IF e.compression_mode = COMP_ALL
        THEN serialize_from_string(comp_compress(e.std_err))
               \o serialize_from_string(comp_compress(e.std_out))
        ELSE serialize_from_string(e.std_err) \o serialize_from_string(e.std_out))
    \o serialize_from_int(e.return_code)
    \o from_map(e.dependency_records)

serialize(e) ==
  serialize_from_int(ENTRY_DATA_FORMAT_VERSION)
    \o serialize_from_int(e.compression_mode)
    \o serialize_from_vector(e.file_ids)
    \o (IF e.compression_mode = COMP_ALL
        THEN serialize_from_string(comp_compress(e.std_out))
               \o serialize_from_string(comp_compress(e.std_err))
        ELSE serialize_from_string(e.std_out) \o serialize_from_string(e.std_err))
    \o serialize_from_int(e.return_code)
    \o from_map(e.dependency_records)

\* What deserialize returns: the entry, or ok = FALSE for the exception.
Decoded(e) == [ok |-> TRUE, entry |-> e]
DecodeError == [ok |-> FALSE, entry |-> NoEntry]

\* A plausible slip: ">=" for ">", which also refuses the writer's own version.
unsupported_version_ge(format_version) == format_version >= ENTRY_DATA_FORMAT_VERSION

\* The format version check of deserialize.
unsupported_version(format_version) == format_version > ENTRY_DATA_FORMAT_VERSION

deserialize(data) ==
  LET format_version == serialize_to_int(data, 0) IN
  IF ~format_version.ok THEN DecodeError
  ELSE IF unsupported_version(format_version.v) THEN DecodeError
  ELSE
  LET compression_mode ==
        IF format_version.v >= 2 THEN serialize_to_int(data, format_version.pos)
        ELSE Rd(COMP_NONE, format_version.pos) IN
  IF ~compression_mode.ok THEN DecodeError
  ELSE
  LET files == serialize_to_map(data, compression_mode.pos)
      file_ids ==
        IF format_version.v >= 3 THEN serialize_to_vector(data, compression_mode.pos)
        ELSE IF files.ok THEN Rd(v2_files_to_vector(files.v), files.pos)
        ELSE RdFail IN
  IF ~file_ids.ok THEN DecodeError
  ELSE
  LET std_out == serialize_to_string(data, file_ids.pos) IN
  IF ~std_out.ok THEN DecodeError
  ELSE
  LET std_err == serialize_to_string(data, std_out.pos) IN
  IF ~std_err.ok THEN DecodeError
  ELSE
  LET return_code == serialize_to_int(data, std_err.pos) IN
  IF ~return_code.ok THEN DecodeError
  ELSE
  LET dependencies ==
        IF format_version.v >= 4 THEN to_map(data, return_code.pos)
        ELSE Rd(EmptyMap, return_code.pos) IN
  IF ~dependencies.ok THEN DecodeError
  ELSE
  LET out == IF compression_mode.v = COMP_ALL THEN comp_decompress(std_out.v)
             ELSE Rd(std_out.v, 0)
      err == IF compression_mode.v = COMP_ALL THEN comp_decompress(std_err.v)
             ELSE Rd(std_err.v, 0) IN
  IF ~out.ok \/ ~err.ok THEN DecodeError
  ELSE Decoded(cache_entry_t(file_ids.v, dependencies.v, compression_mode.v,
                             out.v, err.v, return_code.v))

(***************************************************************************)
(* The codec's specification: an entry is built, written by serialize or   *)
(* laid out as a blob of another format version, possibly cut short, and   *)
(* read back by deserialize.                                               *)
(***************************************************************************)

MaxFileIds == 2
MaxPairs == 2
MaxCut == 1

BoundedSeq(S, n) == UNION {[1..k -> S] : k \in 0..n}

IdStrs == {<<102>>, <<103, 0>>}
OutStrs == {<<>>, <<97, 97, 98>>}
ErrStrs == {<<10>>}
ReturnCodes == {0, -1}
DepRecords ==
  {EmptyMap,
   [k \in {<<104>>} |-> <<1, 2>>],
   [k \in {<<104>>, <<97, 46, 104>>} |-> IF k = <<104>> THEN <<255, 0>> ELSE <<1, 2>>]}
PairKeys == {<<102>>, <<97>>}
PairValues == {<<120>>}
V2PairLists == BoundedSeq(PairKeys \X PairValues, MaxPairs)
FormatVersions == (-1) .. (ENTRY_DATA_FORMAT_VERSION + 2)

Entries ==
  {cache_entry_t(ids, deps, mode, out, err, rc) :
     ids \in BoundedSeq(IdStrs, MaxFileIds), deps \in DepRecords,
     mode \in {COMP_NONE, COMP_ALL}, out \in OutStrs, err \in ErrStrs,
     rc \in ReturnCodes}

\* The (key, value) pairs of a string-to-string map in the order given.
RECURSIVE ConcatPairs(_)
ConcatPairs(pairs) ==
  IF pairs = <<>> THEN <<>>
  ELSE serialize_from_string(Head(pairs)[1]) \o serialize_from_string(Head(pairs)[2])
         \o ConcatPairs(Tail(pairs))

\* The layout of format version ver: no compression field below 2, the
\* file map below 3, no dependency record below 4.
VersionedBlob(ver, e, pairs) ==
  serialize_from_int(ver)
    \o (IF ver >= 2 THEN serialize_from_int(e.compression_mode) ELSE <<>>)
    \o (IF ver >= 3 THEN serialize_from_vector(e.file_ids)
        ELSE serialize_from_int(Len(pairs)) \o ConcatPairs(pairs))
    \o (IF ver >= 2 /\ e.compression_mode = COMP_ALL
        THEN serialize_from_string(comp_compress(e.std_out))
               \o serialize_from_string(comp_compress(e.std_err))
        ELSE serialize_from_string(e.std_out) \o serialize_from_string(e.std_err))
    \o serialize_from_int(e.return_code)
    \o (IF ver >= 4 THEN from_map(e.dependency_records) ELSE <<>>)

CodecInit ==
  /\ ce_pc = "new"
  /\ ce_entry = NoEntry
  /\ ce_ver = 0
  /\ ce_pairs = <<>>
  /\ ce_trunc = FALSE
  /\ ce_blob = <<>>
  /\ ce_out = DecodeError

Construct ==
  /\ ce_pc = "new"
  /\ \E e \in Entries : ce_entry' = e
  /\ ce_pc' = "built"
  /\ UNCHANGED <<ce_ver, ce_pairs, ce_trunc, ce_blob, ce_out, exceptCodec>>

Serialize ==
  /\ ce_pc = "built"
  /\ ce_blob' = serialize(ce_entry)
  /\ ce_ver' = ENTRY_DATA_FORMAT_VERSION
  /\ ce_pc' = "encoded"
  /\ UNCHANGED <<ce_entry, ce_pairs, ce_trunc, ce_out, exceptCodec>>

EncodeVersion ==
  /\ ce_pc = "built"
  /\ \E ver \in FormatVersions \ {ENTRY_DATA_FORMAT_VERSION} :
       \E pairs \in (IF ver < 3 THEN V2PairLists ELSE {<<>>}) :
         /\ ce_blob' = VersionedBlob(ver, ce_entry, pairs)
         /\ ce_ver' = ver
         /\ ce_pairs' = pairs
  /\ ce_pc' = "encoded"
  /\ UNCHANGED <<ce_entry, ce_trunc, ce_out, exceptCodec>>

Truncate ==
  /\ ce_pc = "encoded"
  /\ ~ce_trunc
  /\ \E n \in 1..MaxCut :
       /\ n <= Len(ce_blob)
       /\ ce_blob' = SubSeq(ce_blob, 1, Len(ce_blob) - n)
  /\ ce_trunc' = TRUE
  /\ UNCHANGED <<ce_pc, ce_entry, ce_ver, ce_pairs, ce_out, exceptCodec>>

Deserialize ==
  /\ ce_pc = "encoded"
  /\ ce_out' = deserialize(ce_blob)
  /\ ce_pc' = "decoded"
  /\ UNCHANGED <<ce_entry, ce_ver, ce_pairs, ce_trunc, ce_blob, exceptCodec>>

CodecNext == Construct \/ Serialize \/ EncodeVersion \/ Truncate \/ Deserialize

\* C1: for every entry E (compression mode None or All), deserialize(serialize(E))
\* succeeds and its file ids, compression mode, stdout, stderr, return code and
\* dependency record equal those of E.
C1_RoundTrip ==
  (ce_pc = "decoded" /\ ce_ver = ENTRY_DATA_FORMAT_VERSION /\ ~ce_trunc) =>
    /\ ce_out.ok
    /\ ce_out.entry.file_ids = ce_entry.file_ids
    /\ ce_out.entry.compression_mode = ce_entry.compression_mode
    /\ ce_out.entry.std_out = ce_entry.std_out
    /\ ce_out.entry.std_err = ce_entry.std_err
    /\ ce_out.entry.return_code = ce_entry.return_code
    /\ ce_out.entry.dependency_records = ce_entry.dependency_records

C1_Witness ==
  /\ ce_pc = "decoded" /\ ce_ver = ENTRY_DATA_FORMAT_VERSION /\ ~ce_trunc
  /\ ce_entry.compression_mode = COMP_ALL
  /\ ce_entry.return_code < 0
  /\ Len(ce_entry.file_ids) = 2
  /\ Cardinality(DOMAIN ce_entry.dependency_records) = 2
  /\ ce_entry.std_out # <<>>
  /\ ce_out.ok
  /\ ce_out.entry.std_out = ce_entry.std_out

\* C2 as claimed: deserialize produces an entry only for format versions 2, 3
\* and 4, and fails for every other version.
C2_Original ==
  ce_pc = "decoded" =>
    /\ ce_out.ok => ce_ver \in {2, 3, 4}
    /\ ce_ver \notin {2, 3, 4} => ~ce_out.ok /\ ce_out.entry = NoEntry

\* C2 as amended: deserialize fails, producing no entry, for every format
\* version above 4; no version of 4 or below is refused for its version: a
\* complete blob of version 4 or below (1, 0 and negative included) yields an
\* entry, read below version 2 without a compression field (mode None).
C2_VersionCheck ==
  ce_pc = "decoded" =>
    /\ ce_ver > 4 => ~ce_out.ok /\ ce_out.entry = NoEntry
    /\ (ce_ver <= 4 /\ ~ce_trunc) => ce_out.ok /\ ce_out.entry.valid
    /\ (ce_ver < 2 /\ ce_out.ok) => ce_out.entry.compression_mode = COMP_NONE
    /\ ce_trunc => ~ce_out.ok

C2_Witness ==
  /\ ce_pc = "decoded" /\ ce_ver = 1 /\ ~ce_trunc
  /\ ce_entry.compression_mode = COMP_ALL
  /\ ce_out.ok
  /\ ce_out.entry.std_out = ce_entry.std_out

\* The keys of the pairs, in the order the pairs appear in the blob.
BlobKeys == [i \in 1..Len(ce_pairs) |-> ce_pairs[i][1]]

DistinctKeys == \A i, j \in 1..Len(ce_pairs) : BlobKeys[i] = BlobKeys[j] => i = j

RestEqual ==
  /\ ce_out.entry.dependency_records = EmptyMap
  /\ ce_out.entry.compression_mode = ce_entry.compression_mode
  /\ ce_out.entry.std_out = ce_entry.std_out
  /\ ce_out.entry.std_err = ce_entry.std_err
  /\ ce_out.entry.return_code = ce_entry.return_code

\* C3 as claimed: a version-2 blob decodes to the keys of its map in the order
\* the pairs appear in the blob; versions 2 and 3 decode to an empty dependency
\* record and otherwise equal fields.
C3_Original ==
  (ce_pc = "decoded" /\ ce_ver \in {2, 3} /\ ~ce_trunc) =>
    /\ ce_out.ok
    /\ (ce_ver = 2 /\ DistinctKeys) => ce_out.entry.file_ids = BlobKeys
    /\ ce_ver = 3 => ce_out.entry.file_ids = ce_entry.file_ids
    /\ RestEqual

\* C3 as amended: a version-2 blob decodes to the distinct keys of its map in
\* ascending byte order (the order of std::map), whatever the order of the
\* pairs in the blob; versions 2 and 3 decode to an empty dependency record and
\* otherwise equal fields.
C3_BackCompat ==
  (ce_pc = "decoded" /\ ce_ver \in {2, 3} /\ ~ce_trunc) =>
    /\ ce_out.ok
    /\ ce_ver = 2 =>
         LET ids == ce_out.entry.file_ids IN
         /\ {ids[i] : i \in 1..Len(ids)} = {BlobKeys[i] : i \in 1..Len(BlobKeys)}
         /\ \A i \in 1..(Len(ids) - 1) : BytesLess(ids[i], ids[i + 1])
    /\ ce_ver = 3 => ce_out.entry.file_ids = ce_entry.file_ids
    /\ RestEqual

C3_Witness ==
  /\ ce_pc = "decoded" /\ ce_ver = 2 /\ ~ce_trunc
  /\ Len(ce_pairs) = 2 /\ DistinctKeys
  /\ BytesLess(BlobKeys[2], BlobKeys[1])
  /\ ce_out.ok
  /\ ce_out.entry.file_ids = <<BlobKeys[2], BlobKeys[1]>>

(***************************************************************************)
(* filetracker: the process-wide suspension singleton.  The host decides   *)
(* which FileTracker module is loaded and what it exports; the singleton's *)
(* constructor runs at static initialization, its destructor at teardown,  *)
(* and release_suppression may be called in between.                       *)
(***************************************************************************)

MaxReleases == 2

ModuleNames == <<"FileTracker64", "FileTracker32", "FileTracker">>

\* GetModuleHandleW over the module names: the first one loaded, or "null".
GetModuleHandleW ==
  LET hits == {i \in 1..Len(ModuleNames) : ModuleNames[i] \in t_modules}
  IN  IF hits = {} THEN "null"
      ELSE ModuleNames[CHOOSE i \in hits : \A j \in hits : i <= j]

InitResult(ok, h, resolved) == [ok |-> ok, handle |-> h, resolved |-> resolved]

\* init(): what it returns and what it leaves in handle and the pointers.
init ==
  IF handle # "null" THEN InitResult(TRUE, handle, t_resolved)
  ELSE IF ~t_enabled THEN InitResult(FALSE, "null", t_resolved)
  ELSE IF GetModuleHandleW = "null" THEN InitResult(FALSE, "null", t_resolved)
  ELSE IF "SuspendTracking" \notin t_exports
    THEN InitResult(FALSE, "null", t_resolved \ {"SuspendTracking"})
  ELSE IF "ResumeTracking" \notin t_exports
    THEN InitResult(FALSE, "null", (t_resolved \cup {"SuspendTracking"}) \ {"ResumeTracking"})
  ELSE InitResult(TRUE, GetModuleHandleW, {"SuspendTracking", "ResumeTracking"})

\* A plausible slip: release_suppression remembers that it resumed, so the
\* destructor's resume_tracking finds nothing to do.
resume_tracking_once ==
  /\ handle' = init.handle
  /\ t_resolved' = init.resolved
  /\ t_calls' = IF init.ok /\ ~(\E i \in 1..Len(t_calls) : t_calls[i] = "ResumeTracking")
                THEN Append(t_calls, "ResumeTracking") ELSE t_calls

suspend_tracking ==
  /\ handle' = init.handle
  /\ t_resolved' = init.resolved
  /\ t_calls' = IF init.ok THEN Append(t_calls, "SuspendTracking") ELSE t_calls

resume_tracking ==
  /\ handle' = init.handle
  /\ t_resolved' = init.resolved
  /\ t_calls' = IF init.ok THEN Append(t_calls, "ResumeTracking") ELSE t_calls

TrackerInit ==
  /\ t_pc = "static_init"
  /\ t_enabled \in BOOLEAN
  /\ t_modules \in SUBSET {ModuleNames[i] : i \in 1..Len(ModuleNames)}
  /\ t_exports \in SUBSET {"SuspendTracking", "ResumeTracking"}
  /\ handle = "null"
  /\ t_resolved = {}
  /\ t_releases = 0
  /\ t_calls = <<>>

\* FileTrackerScopedSuppressor(): the constructor of filetracker_singleton.
FileTrackerScopedSuppressor ==
  /\ t_pc = "static_init"
  /\ suspend_tracking
  /\ t_pc' = "main"
  /\ UNCHANGED <<t_enabled, t_modules, t_exports, t_releases, exceptTracker>>

release_suppression ==
  /\ t_pc = "main"
  /\ t_releases < MaxReleases
  /\ resume_tracking
  /\ t_releases' = t_releases + 1
  /\ UNCHANGED <<t_pc, t_enabled, t_modules, t_exports, exceptTracker>>

\* ~FileTrackerScopedSuppressor(): the destructor, at static teardown.
FileTrackerScopedSuppressorDtor ==
  /\ t_pc = "main"
  /\ resume_tracking
  /\ t_pc' = "exited"
  /\ UNCHANGED <<t_enabled, t_modules, t_exports, t_releases, exceptTracker>>

TrackerNext ==
  FileTrackerScopedSuppressor \/ release_suppression \/ FileTrackerScopedSuppressorDtor

Count(seq, x) == Cardinality({i \in 1..Len(seq) : seq[i] = x})

\* The host loaded a FileTracker module that exports both functions.
TrackerPresent ==
  /\ t_modules # {}
  /\ t_exports = {"SuspendTracking", "ResumeTracking"}

\* C10 as claimed: with TRACKER_ENABLED truthy and the module present, over the
\* whole process SuspendTracking and ResumeTracking are each invoked exactly
\* once, Resume never before Suspend; with the module or a symbol absent
\* neither is invoked.
C10_Original ==
  /\ (t_pc = "exited" /\ t_enabled /\ TrackerPresent) =>
       /\ Count(t_calls, "SuspendTracking") = 1
       /\ Count(t_calls, "ResumeTracking") = 1
       /\ Head(t_calls) = "SuspendTracking"
  /\ ~TrackerPresent => t_calls = <<>>

\* C10 as amended: with TRACKER_ENABLED truthy and the module present,
\* SuspendTracking is invoked exactly once, first of all calls, and
\* ResumeTracking once by the destructor and once more by every
\* release_suppression call; with the module or a symbol absent, or
\* TRACKER_ENABLED not truthy, neither is ever invoked.
C10_SuspendResume ==
  /\ (t_pc = "exited" /\ t_enabled /\ TrackerPresent) =>
       /\ Count(t_calls, "SuspendTracking") = 1
       /\ Count(t_calls, "ResumeTracking") = 1 + t_releases
  /\ t_calls # <<>> => Head(t_calls) = "SuspendTracking"
  /\ (~TrackerPresent \/ ~t_enabled) => t_calls = <<>>

C10_Witness ==
  /\ t_pc = "exited" /\ t_enabled /\ TrackerPresent
  /\ t_releases = 2
  /\ t_calls = <<"SuspendTracking", "ResumeTracking", "ResumeTracking", "ResumeTracking">>

(***************************************************************************)
(* Text helpers of the command line parser                                 *)
(***************************************************************************)

LowerLetters == "abcdefghijklmnopqrstuvwxyz"
UpperLetters == "ABCDEFGHIJKLMNOPQRSTUVWXYZ"

\* The 1-based place of character c in letters, or 0.
IndexIn(c, letters) ==
  IF \E i \in 1..Len(letters) : SubSeq(letters, i, i) = c
  THEN CHOOSE i \in 1..Len(letters) : SubSeq(letters, i, i) = c
  ELSE 0

upper_char(c) ==
  IF IndexIn(c, LowerLetters) = 0 THEN c
  ELSE SubSeq(UpperLetters, IndexIn(c, LowerLetters), IndexIn(c, LowerLetters))

lower_char(c) ==
  IF IndexIn(c, UpperLetters) = 0 THEN c
  ELSE SubSeq(LowerLetters, IndexIn(c, UpperLetters), IndexIn(c, UpperLetters))

RECURSIVE upper_case(_)
upper_case(s) ==
  IF s = "" THEN "" ELSE upper_char(SubSeq(s, 1, 1)) \o upper_case(substr(s, 1))

RECURSIVE lower_case(_)
lower_case(s) ==
  IF s = "" THEN "" ELSE lower_char(SubSeq(s, 1, 1)) \o lower_case(substr(s, 1))

\* string_list_t::join
RECURSIVE join(_, _)
join(list, sep) ==
  IF list = <<>> THEN ""
  ELSE IF Len(list) = 1 THEN list[1]
  ELSE list[1] \o sep \o join(Tail(list), sep)

\* string_list_t::split_args: the tokens of a line, separated by spaces.
RECURSIVE SplitScan(_, _, _, _)
SplitScan(line, i, cur, acc) ==
  IF i > Len(line) THEN (IF cur = "" THEN acc ELSE Append(acc, cur))
  ELSE IF SubSeq(line, i, i) = " "
    THEN SplitScan(line, i + 1, "", IF cur = "" THEN acc ELSE Append(acc, cur))
  ELSE SplitScan(line, i + 1, cur \o SubSeq(line, i, i), acc)

split_args(line) == SplitScan(line, 1, "", <<>>)

drop_leading_colon(s) ==
  IF Len(s) > 0 /\ SubSeq(s, 1, 1) = ":" THEN substr(s, 1) ELSE s

(***************************************************************************)
(* cmdline_parser_t.  The record holds the members of the parser; err is   *)
(* TRUE once an exception left the parser.                                 *)
(***************************************************************************)

MAX_COMMAND_FILE_DEPTH == 100

InputFile(name, type) == [name |-> name, type |-> type]

flag_option_t == [enabled |-> FALSE, value |-> ""]

pch_config_t ==
  [create |-> flag_option_t, use |-> flag_option_t, path |-> "", ignore |-> FALSE]

cmdline_parser_t ==
  [err |-> FALSE,
   m_command_file_depth |-> 0,
   m_compile_only |-> FALSE,
   m_default_input_type |-> "kObject",
   m_debug_format |-> "kNone",
   m_includes |-> <<>>,
   m_defines |-> <<>>,
   m_options |-> <<>>,
   m_pdb_path |-> "",
   m_object_path |-> "",
   m_pch_config |-> pch_config_t,
   m_input_files |-> <<>>]

\* throw std::runtime_error: the parser is left as it is.
Throw(p) == [p EXCEPT !.err = TRUE]

get_option(item) ==
  IF Len(item) < 1 THEN [ok |-> FALSE, option |-> ""]
  ELSE IF ~(SubSeq(item, 1, 1) = "/" \/ SubSeq(item, 1, 1) = "-")
    THEN [ok |-> FALSE, option |-> ""]
  ELSE [ok |-> TRUE, option |-> substr(item, 1)]

append_file(p, name, type) ==
  [p EXCEPT !.m_input_files = Append(@, InputFile(name, type))]

\* What next_item and retrieve_arg give: the argument and the iterator, or
\* ok = FALSE for "Expected another item."
Arg(ok, arg, it) == [ok |-> ok, arg |-> arg, it |-> it]

next_item(list, it) ==
  IF it + 1 > Len(list) THEN Arg(FALSE, "", it + 1)
  ELSE Arg(TRUE, list[it + 1], it + 1)

\* A plausible slip: an option that admits a colon reads on in the list too.
retrieve_arg_next(list, it, item, uses_colon) ==
  LET arg == IF uses_colon THEN drop_leading_colon(item) ELSE item
  IN  IF arg # "" THEN Arg(TRUE, arg, it) ELSE next_item(list, it)

retrieve_arg(list, it, item, uses_colon) ==
  LET arg == IF uses_colon THEN drop_leading_colon(item) ELSE item
  IN  IF arg # "" THEN Arg(TRUE, arg, it)
      ELSE IF uses_colon THEN Arg(FALSE, "", it)
      ELSE next_item(list, it)

sanitize_path(path) ==
  IF Len(path) > 2 /\ SubSeq(path, 2, 2) = ":"
  THEN upper_case(substr_n(path, 0, 1)) \o substr(path, 1)
  ELSE path

\* One turn of the while loop of parse_list: the parser, the iterator and
\* whether the loop was left by break.
Step(p, it, brk) == [p |-> p, it |-> it, brk |-> brk]

parse_option(p, list, it, option) ==
  IF option = "link" THEN Step(p, it, TRUE)
  ELSE IF option = "c" THEN Step([p EXCEPT !.m_compile_only = TRUE], it, FALSE)
  ELSE IF starts_with(option, "D") THEN
    LET a == retrieve_arg(list, it, substr(option, 1), FALSE)
    IN  IF ~a.ok THEN Step(Throw(p), a.it, FALSE)
        ELSE Step([p EXCEPT !.m_defines = Append(@, a.arg)], a.it, FALSE)
  ELSE IF starts_with(option, "Fd") THEN
    LET a == retrieve_arg(list, it, substr(option, 2), TRUE)
    IN  IF ~a.ok THEN Step(Throw(p), a.it, FALSE)
        ELSE Step([p EXCEPT !.m_pdb_path = sanitize_path(a.arg)], a.it, FALSE)
  ELSE IF starts_with(option, "Fo") THEN
    LET a == retrieve_arg(list, it, substr(option, 2), TRUE)
    IN  IF ~a.ok THEN Step(Throw(p), a.it, FALSE)
        ELSE Step([p EXCEPT !.m_object_path = sanitize_path(a.arg)], a.it, FALSE)
  ELSE IF starts_with(option, "Fp") THEN
    LET a == retrieve_arg(list, it, substr(option, 2), TRUE)
    IN  IF ~a.ok THEN Step(Throw(p), a.it, FALSE)
        ELSE Step([p EXCEPT !.m_pch_config.path = sanitize_path(a.arg)], a.it, FALSE)
  ELSE IF starts_with(option, "I") THEN
    LET a == retrieve_arg(list, it, substr(option, 1), FALSE)
    IN  IF ~a.ok THEN Step(Throw(p), a.it, FALSE)
        ELSE Step([p EXCEPT !.m_includes = Append(@, sanitize_path(a.arg))], a.it, FALSE)
  ELSE IF option = "TC" THEN Step([p EXCEPT !.m_default_input_type = "kC"], it, FALSE)
  ELSE IF option = "TP" THEN Step([p EXCEPT !.m_default_input_type = "kCpp"], it, FALSE)
  ELSE IF starts_with(option, "Tc") \/ starts_with(option, "Tp") THEN
    LET file_type == IF starts_with(option, "Tc") THEN "kC" ELSE "kCpp"
        a == retrieve_arg(list, it, substr(option, 2), FALSE)
    IN  IF ~a.ok THEN Step(Throw(p), a.it, FALSE)
        ELSE Step(append_file(p, sanitize_path(a.arg), file_type), a.it, FALSE)
  ELSE IF option = "Y-" THEN Step([p EXCEPT !.m_pch_config.ignore = TRUE], it, FALSE)
  ELSE IF starts_with(option, "Yc") THEN
    Step([p EXCEPT !.m_pch_config.create =
            [enabled |-> TRUE, value |-> sanitize_path(substr(option, 2))]], it, FALSE)
  ELSE IF starts_with(option, "Yu") THEN
    Step([p EXCEPT !.m_pch_config.use =
            [enabled |-> TRUE, value |-> sanitize_path(substr(option, 2))]], it, FALSE)
  ELSE IF option = "Z7" THEN Step([p EXCEPT !.m_debug_format = "kObjectFile"], it, FALSE)
  ELSE IF option = "Zi" THEN Step([p EXCEPT !.m_debug_format = "kSeparateFile"], it, FALSE)
  ELSE IF option = "ZI"
    THEN Step([p EXCEPT !.m_debug_format = "kSeparateFileEditAndContinue"], it, FALSE)
  ELSE Step([p EXCEPT !.m_options = Append(@, option)], it, FALSE)

RECURSIVE ParseItems(_, _, _, _)
RECURSIVE ParseLines(_, _, _, _)
RECURSIVE parse_line(_, _, _)
RECURSIVE parse_file(_, _, _)

\* A plausible slip: the line is handed on as a single token, not split.
parse_line_unsplit(p, line, fs) == ParseItems(p, <<line>>, 1, fs)

\* A plausible slip: /link is skipped, and the loop goes on behind it.
ParseItemsPastLink(p, list, it, fs) ==
  IF p.err \/ it > Len(list) THEN p
  ELSE LET item == list[it]
           opt == get_option(item)
           s == IF opt.ok THEN parse_option(p, list, it, opt.option)
                ELSE IF starts_with(item, "@")
                  THEN Step(parse_file(p, substr(item, 1), fs), it, FALSE)
                ELSE Step(append_file(p, item, "kUnknown"), it, FALSE)
       IN  ParseItems(s.p, list, s.it + 1, fs)

\* The while loop of parse_list from iterator it (1-based) on.  fs holds the
\* files that can be read: the lines of each.
ParseItems(p, list, it, fs) ==
  IF p.err \/ it > Len(list) THEN p
  ELSE LET item == list[it]
           opt == get_option(item)
           s == IF opt.ok THEN parse_option(p, list, it, opt.option)
                ELSE IF starts_with(item, "@")
                  THEN Step(parse_file(p, substr(item, 1), fs), it, FALSE)
                ELSE Step(append_file(p, item, "kUnknown"), it, FALSE)
       IN  IF s.brk THEN s.p ELSE ParseItems(s.p, list, s.it + 1, fs)

parse_list(p, list, fs) == ParseItems(p, list, 1, fs)

parse_line(p, line, fs) == parse_list(p, split_args(line), fs)

\* read_lines with parse_line as the callback.
ParseLines(p, lines, i, fs) ==
  IF p.err \/ i > Len(lines) THEN p
  ELSE ParseLines(parse_line(p, lines[i], fs), lines, i + 1, fs)

parse_file(p, name, fs) ==
  LET entered == [p EXCEPT !.m_command_file_depth = @ + 1]
  IN  IF entered.m_command_file_depth > MAX_COMMAND_FILE_DEPTH THEN Throw(entered)
      ELSE IF name \notin DOMAIN fs THEN Throw(entered)
      ELSE LET read == ParseLines(entered, fs[name], 1, fs)
           IN  IF read.err THEN read
               ELSE [read EXCEPT !.m_command_file_depth = @ - 1]

\* An environment variable as std::getenv gives it: a value, or a null pointer.
EnvUnset == [set |-> FALSE, value |-> ""]
EnvValue(v) == [set |-> TRUE, value |-> v]

\* A plausible slip: the CL prefix is parsed after argv, like the postfix.
parse_prefix_last(p, argv, cl_prefix, cl_postfix, fs) ==
  LET b == IF Len(argv) > 1 THEN parse_list(p, Tail(argv), fs) ELSE p
      a == IF cl_prefix.set /\ ~b.err THEN parse_line(b, cl_prefix.value, fs) ELSE b
  IN  IF cl_postfix.set /\ ~a.err THEN parse_line(a, cl_postfix.value, fs) ELSE a

\* parse(argv) with CL = cl_prefix and _CL_ = cl_postfix in the environment.
parse(p, argv, cl_prefix, cl_postfix, fs) ==
  LET a == IF cl_prefix.set THEN parse_line(p, cl_prefix.value, fs) ELSE p
      b == IF Len(argv) > 1 /\ ~a.err THEN parse_list(a, Tail(argv), fs) ELSE a
  IN  IF cl_postfix.set /\ ~b.err THEN parse_line(b, cl_postfix.value, fs) ELSE b

\* A plausible slip: the type option is left out.
as_arg_bare(file) == file.name

as_arg(file) ==
  IF file.type = "kC" THEN "/Tc" \o file.name
  ELSE IF file.type = "kCpp" THEN "/Tp" \o file.name
  ELSE file.name

\* for (x : list) cmdline += prefix + x
Prefixed(prefix, list) == [i \in 1..Len(list) |-> prefix \o list[i]]

\* A plausible slip: the type flag is emitted in every mode.
merge_type_always(p, mode) ==
  (IF p.m_compile_only THEN <<"/c">> ELSE <<>>)
  \o (IF p.m_default_input_type = "kC" THEN <<"/TC">>
      ELSE IF p.m_default_input_type = "kCpp" THEN <<"/TP">>
      ELSE <<>>)
  \o (IF p.m_debug_format = "kObjectFile" THEN <<"/Z7">>
      ELSE IF p.m_debug_format = "kSeparateFile" THEN <<"/Zi">>
      ELSE IF p.m_debug_format = "kSeparateFileEditAndContinue" THEN <<"/ZI">>
      ELSE <<>>)
  \o Prefixed("/", p.m_options)
  \o (IF p.m_pdb_path # "" THEN <<"/Fd:" \o p.m_pdb_path>> ELSE <<>>)
  \o (IF mode # "kSkipCoveredByPreprocess"
      THEN Prefixed("/I", p.m_includes)
             \o Prefixed("/D ", p.m_defines)
             \o (IF p.m_object_path # "" THEN <<"/Fo:" \o p.m_object_path>> ELSE <<>>)
      ELSE <<>>)
  \o (IF p.m_pch_config.create.enabled
      THEN <<"/Yc" \o p.m_pch_config.create.value>> ELSE <<>>)
  \o (IF p.m_pch_config.use.enabled
      THEN <<"/Yu" \o p.m_pch_config.use.value>> ELSE <<>>)
  \o (IF p.m_pch_config.ignore THEN <<"/Y-">> ELSE <<>>)
  \o (IF p.m_pch_config.path # "" THEN <<"/Fp:" \o p.m_pch_config.path>> ELSE <<>>)
  \o (IF mode = "kAll"
      THEN [i \in 1..Len(p.m_input_files) |-> as_arg(p.m_input_files[i])]
      ELSE <<>>)

\* A plausible slip: the defines are emitted before the includes.
merge_defines_first(p, mode) ==
  (IF p.m_compile_only THEN <<"/c">> ELSE <<>>)
  \o (IF mode # "kDirectModeCommonArgs"
      THEN (IF p.m_default_input_type = "kC" THEN <<"/TC">>
            ELSE IF p.m_default_input_type = "kCpp" THEN <<"/TP">>
            ELSE <<>>)
      ELSE <<>>)
  \o (IF p.m_debug_format = "kObjectFile" THEN <<"/Z7">>
      ELSE IF p.m_debug_format = "kSeparateFile" THEN <<"/Zi">>
      ELSE IF p.m_debug_format = "kSeparateFileEditAndContinue" THEN <<"/ZI">>
      ELSE <<>>)
  \o Prefixed("/", p.m_options)
  \o (IF p.m_pdb_path # "" THEN <<"/Fd:" \o p.m_pdb_path>> ELSE <<>>)
  \o (IF mode # "kSkipCoveredByPreprocess"
      THEN Prefixed("/D ", p.m_defines)
             \o Prefixed("/I", p.m_includes)
             \o (IF p.m_object_path # "" THEN <<"/Fo:" \o p.m_object_path>> ELSE <<>>)
      ELSE <<>>)
  \o (IF p.m_pch_config.create.enabled
      THEN <<"/Yc" \o p.m_pch_config.create.value>> ELSE <<>>)
  \o (IF p.m_pch_config.use.enabled
      THEN <<"/Yu" \o p.m_pch_config.use.value>> ELSE <<>>)
  \o (IF p.m_pch_config.ignore THEN <<"/Y-">> ELSE <<>>)
  \o (IF p.m_pch_config.path # "" THEN <<"/Fp:" \o p.m_pch_config.path>> ELSE <<>>)
  \o (IF mode = "kAll"
      THEN [i \in 1..Len(p.m_input_files) |-> as_arg(p.m_input_files[i])]
      ELSE <<>>)

merge(p, mode) ==
  (IF p.m_compile_only THEN <<"/c">> ELSE <<>>)
  \o (IF mode # "kDirectModeCommonArgs"
      THEN (IF p.m_default_input_type = "kC" THEN <<"/TC">>
            ELSE IF p.m_default_input_type = "kCpp" THEN <<"/TP">>
            ELSE <<>>)
      ELSE <<>>)
  \o (IF p.m_debug_format = "kObjectFile" THEN <<"/Z7">>
      ELSE IF p.m_debug_format = "kSeparateFile" THEN <<"/Zi">>
      ELSE IF p.m_debug_format = "kSeparateFileEditAndContinue" THEN <<"/ZI">>
      ELSE <<>>)
  \o Prefixed("/", p.m_options)
  \o (IF p.m_pdb_path # "" THEN <<"/Fd:" \o p.m_pdb_path>> ELSE <<>>)
  \o (IF mode # "kSkipCoveredByPreprocess"
      THEN Prefixed("/I", p.m_includes)
             \o Prefixed("/D ", p.m_defines)
             \o (IF p.m_object_path # "" THEN <<"/Fo:" \o p.m_object_path>> ELSE <<>>)
      ELSE <<>>)
  \o (IF p.m_pch_config.create.enabled
      THEN <<"/Yc" \o p.m_pch_config.create.value>> ELSE <<>>)
  \o (IF p.m_pch_config.use.enabled
      THEN <<"/Yu" \o p.m_pch_config.use.value>> ELSE <<>>)
  \o (IF p.m_pch_config.ignore THEN <<"/Y-">> ELSE <<>>)
  \o (IF p.m_pch_config.path # "" THEN <<"/Fp:" \o p.m_pch_config.path>> ELSE <<>>)
  \o (IF mode = "kAll"
      THEN [i \in 1..Len(p.m_input_files) |-> as_arg(p.m_input_files[i])]
      ELSE <<>>)

\* A plausible slip: only the backslash counts as a directory separator.
obj_path_is_dir_backslash(p) ==
  IF p.m_object_path = "" THEN TRUE
  ELSE SubSeq(p.m_object_path, Len(p.m_object_path), Len(p.m_object_path)) = "\\"

obj_path_is_dir(p) ==
  IF p.m_object_path = "" THEN TRUE
  ELSE LET last == SubSeq(p.m_object_path, Len(p.m_object_path), Len(p.m_object_path))
       IN  last = "\\" \/ last = "/"

(***************************************************************************)
(* The parser at work: parse, merge, and parse what merge gave             *)
(***************************************************************************)

MaxArgs == 2

ParserTokens ==
  {"", "/c", "/link", "/D", "/DX", "/I", "/Ic:\\i", "/TC", "/TP", "/Tca.c", "/Tp",
   "b.cpp", "/Fo", "/Fo:", "/Fo:o\\", "/Foc:", "/Fdc:x.pdb", "/Fpp.pch", "/Z7", "/Zi",
   "/W4", "/Ycs.h", "/Yus.h", "/Y-", "@all.rsp"}

ParserFs ==
  [name \in {"all.rsp"} |->
     <<"/c /TP /Z7 /W4 /Fd:x.pdb", "/Ii /DA=1 /Fo:o\\ /Ycs.h /Fpp.pch a.c">>]

MergeModes == {"kAll", "kSkipCoveredByPreprocess", "kDirectModeCommonArgs", "kSkipInputs"}

\* The members of the parser that make up the parsed command line.
Model(p) ==
  [compile_only |-> p.m_compile_only,
   default_input_type |-> p.m_default_input_type,
   debug_format |-> p.m_debug_format,
   includes |-> p.m_includes,
   defines |-> p.m_defines,
   options |-> p.m_options,
   pdb_path |-> p.m_pdb_path,
   object_path |-> p.m_object_path,
   pch_config |-> p.m_pch_config,
   input_files |-> p.m_input_files]

\* Two parses ended alike: both with an error, or both with the same model.
SameOutcome(a, b) == a.err = b.err /\ (~a.err => Model(a) = Model(b))

ParserStart ==
  /\ p_pc = "start"
  /\ p_model = cmdline_parser_t
  /\ p_mode = "kAll"
  /\ p_merged = <<>>
  /\ p_split = <<0, 0>>
  /\ p_alt = cmdline_parser_t

ParserInit ==
  /\ p_argv \in {<<"cl.exe">> \o a : a \in BoundedSeq(ParserTokens, MaxArgs)}
  /\ p_cl = EnvUnset
  /\ p_clpost = EnvUnset
  /\ p_fs = ParserFs
  /\ ParserStart

Parse ==
  /\ p_pc = "start"
  /\ p_model' = parse(cmdline_parser_t, p_argv, p_cl, p_clpost, p_fs)
  /\ p_pc' = "parsed"
  /\ UNCHANGED <<p_argv, p_cl, p_clpost, p_fs, p_mode, p_merged, p_split, p_alt, exceptParser>>

Merge ==
  /\ p_pc = "parsed"
  /\ ~p_model.err
  /\ \E mode \in MergeModes :
       /\ p_mode' = mode
       /\ p_merged' = merge(p_model, mode)
  /\ p_pc' = "merged"
  /\ UNCHANGED <<p_argv, p_cl, p_clpost, p_fs, p_model, p_split, p_alt, exceptParser>>

Reparse ==
  /\ p_pc = "merged"
  /\ p_alt' = parse_list(cmdline_parser_t, p_merged, p_fs)
  /\ p_pc' = "reparsed"
  /\ UNCHANGED <<p_argv, p_cl, p_clpost, p_fs, p_model, p_mode, p_merged, p_split, exceptParser>>

ParserNext ==
  \/ Parse
  \/ Merge
  \/ Reparse

\* C4: for any argument list that parses without error, parsing the token
\* list merge(All) gives yields a parsed model equal to the original one.
C4_Original ==
  (p_pc = "reparsed" /\ p_mode = "kAll") => (~p_alt.err /\ Model(p_alt) = Model(p_model))

\* C4 witness: an argument list with a define was parsed, merged in mode
\* All and parsed again.
C4_Reparsed ==
  /\ p_pc = "reparsed"
  /\ p_mode = "kAll"
  /\ ~p_model.err
  /\ p_model.m_defines = <<"X">>
  /\ p_merged = <<"/D X">>

(***************************************************************************)
(* A part of the argument list moved into a response file                  *)
(***************************************************************************)

MaxRspArgs == 3

RspTokens == {"", "/c", "/D", "X", "/DY", "/link", "a.c", "@r.rsp", "/Fo", "-Tc"}

RspFs == [name \in {"r.rsp"} |-> <<"/DZ /link /c", "b.c">>]

\* The file that receives the part of the list: one line, the tokens joined
\* by spaces (an empty file has no line).
InlineFile == "in.rsp"

InlineLines(tokens) == IF tokens = <<>> THEN <<>> ELSE <<join(tokens, " ")>>

RspInit ==
  /\ p_argv \in {<<"cl.exe">> \o a : a \in BoundedSeq(RspTokens, MaxRspArgs)}
  /\ p_cl = EnvUnset
  /\ p_clpost = EnvUnset
  /\ p_fs = RspFs
  /\ ParserStart

\* The tokens first+1..last of argv[1..] go to the response file; the list is
\* parsed with @file in their place.
Inline ==
  /\ p_pc = "parsed"
  /\ \E first \in 0..(Len(p_argv) - 1) : \E last \in first..(Len(p_argv) - 1) :
       LET args == Tail(p_argv)
           fs == [name \in DOMAIN p_fs \cup {InlineFile} |->
                    IF name = InlineFile
                    THEN InlineLines(SubSeq(args, first + 1, last))
                    ELSE p_fs[name]]
           inlined == <<p_argv[1]>> \o SubSeq(args, 1, first)
                        \o <<"@" \o InlineFile>> \o SubSeq(args, last + 1, Len(args))
       IN  /\ p_split' = <<first, last>>
           /\ p_fs' = fs
           /\ p_alt' = parse(cmdline_parser_t, inlined, p_cl, p_clpost, fs)
  /\ p_pc' = "inlined"
  /\ UNCHANGED <<p_argv, p_cl, p_clpost, p_model, p_mode, p_merged, exceptParser>>

RspNext ==
  \/ Parse
  \/ Inline

\* The part of argv[1..] before the response file, and the part inside it.
Before == SubSeq(Tail(p_argv), 1, p_split[1])
Inside == SubSeq(Tail(p_argv), p_split[1] + 1, p_split[2])

IsLink(token) == token = "/link" \/ token = "-link"

\* Options whose value is the next token when nothing follows the letters.
TakesNext(token) == token \in {"/D", "-D", "/I", "-I", "/Tc", "-Tc", "/Tp", "-Tp"}

\* Reading the tokens from place k on, the last one is an option whose value
\* is still to come.
RECURSIVE AwaitsFrom(_, _)
AwaitsFrom(tokens, k) ==
  IF k > Len(tokens) THEN FALSE
  ELSE IF TakesNext(tokens[k])
    THEN (IF k = Len(tokens) THEN TRUE ELSE AwaitsFrom(tokens, k + 2))
  ELSE AwaitsFrom(tokens, k + 1)

AwaitsValue(tokens) == AwaitsFrom(tokens, 1)

NoLink(tokens) == \A k \in 1..Len(tokens) : ~IsLink(tokens[k])

\* Tokens that joining by spaces and splitting again gives back.
Plain(tokens) == split_args(join(tokens, " ")) = tokens

\* C5 as stated: parsing the sequence directly and parsing it with any
\* contiguous part replaced by @file give identical parsed models and the
\* same error outcome, for every split point.
C5_Original == p_pc = "inlined" => SameOutcome(p_model, p_alt)

\* C5: parsing the sequence directly and parsing it with a contiguous part
\* replaced by @file give the same outcome when the part has no /link token,
\* neither the part nor what precedes it ends with an option whose value is
\* the next token, and the part's tokens survive joining and splitting.
C5_Inlining ==
  (/\ p_pc = "inlined"
   /\ NoLink(Inside)
   /\ ~AwaitsValue(Before)
   /\ ~AwaitsValue(Inside)
   /\ Plain(Inside))
  => SameOutcome(p_model, p_alt)

\* C5 witness: an option and its value token went into the file together,
\* and both parses give the define.
C5_Witness ==
  /\ p_pc = "inlined"
  /\ Inside = <<"/D", "X">>
  /\ Before = <<"/c">>
  /\ ~p_model.err
  /\ ~p_alt.err
  /\ p_alt.m_defines = <<"X">>
  /\ p_alt.m_compile_only

(***************************************************************************)
(* CL and _CL_ around the argument list                                    *)
(***************************************************************************)

MaxEnvArgs == 2

EnvTokens == {"/c", "/D", "X", "/DY", "/link", "a.c"}

ClValues ==
  {EnvUnset, EnvValue(""), EnvValue("/D"), EnvValue("/DA /c"), EnvValue("/link /c"),
   EnvValue("/W4 /D B")}

ClPostValues == {EnvUnset, EnvValue("b.c"), EnvValue("/link"), EnvValue("/D")}

EnvInit ==
  /\ p_argv \in {<<"cl.exe">> \o a : a \in BoundedSeq(EnvTokens, MaxEnvArgs)}
  /\ p_cl \in ClValues
  /\ p_clpost \in ClPostValues
  /\ p_fs = RspFs
  /\ ParserStart

\* The tokens of an environment variable; none when it is not set.
Tokens(env) == IF env.set THEN split_args(env.value) ELSE <<>>

\* One list made of CL, argv[1..] and _CL_, parsed with both variables unset.
Joined == <<p_argv[1]>> \o Tokens(p_cl) \o Tail(p_argv) \o Tokens(p_clpost)

ParseJoined ==
  /\ p_pc = "parsed"
  /\ p_alt' = parse(cmdline_parser_t, Joined, EnvUnset, EnvUnset, p_fs)
  /\ p_pc' = "joined"
  /\ UNCHANGED <<p_argv, p_cl, p_clpost, p_fs, p_model, p_mode, p_merged, p_split,
                 exceptParser>>

EnvNext ==
  \/ Parse
  \/ ParseJoined

\* C6 as stated: for any argv and any values of CL and _CL_, parse(argv)
\* yields the same model or error as parsing the concatenated token list.
C6_Original == p_pc = "joined" => SameOutcome(p_model, p_alt)

\* C6: parse(argv) with CL and _CL_ set yields the same model or error as
\* parsing tokenize(CL) ++ argv[1..] ++ tokenize(_CL_) with both unset, when
\* neither CL nor argv[1..] holds a /link token or ends with an option whose
\* value is the next token.
C6_Wrapping ==
  (/\ p_pc = "joined"
   /\ NoLink(Tokens(p_cl))
   /\ NoLink(Tail(p_argv))
   /\ ~AwaitsValue(Tokens(p_cl))
   /\ ~AwaitsValue(Tail(p_argv)))
  => SameOutcome(p_model, p_alt)

\* C6 witness: CL, argv and _CL_ each gave something to the model.
C6_Witness ==
  /\ p_pc = "joined"
  /\ p_cl = EnvValue("/DA /c")
  /\ p_clpost = EnvValue("b.c")
  /\ Tail(p_argv) = <<"/DY", "a.c">>
  /\ ~p_model.err
  /\ p_model.m_defines = <<"A", "Y">>
  /\ Len(p_model.m_input_files) = 2
  /\ Model(p_alt) = Model(p_model)

(***************************************************************************)
(* version_t and msvc_wrapper_t::resolve_args                              *)
(***************************************************************************)

UINT16 == 65536

version_t(major, minor, build, qfe) ==
  [m_major |-> major % UINT16, m_minor |-> minor % UINT16,
   m_build |-> build % UINT16, m_qfe |-> qfe % UINT16]

\* A 64-bit unsigned value is kept as its four base-65536 digits, the most
\* significant first.
Uint64(x) == <<0, 0, 0, x % UINT16>>

\* x | y on 16-bit digits.
RECURSIVE BitOr(_, _)
BitOr(x, y) ==
  IF x = 0 THEN y
  ELSE IF y = 0 THEN x
  ELSE (IF x % 2 = 1 \/ y % 2 = 1 THEN 1 ELSE 0) + 2 * BitOr(x \div 2, y \div 2)

\* a | b on 64-bit values.
Or64(a, b) == [i \in 1..4 |-> BitOr(a[i], b[i])]

\* a << n and a >> n on 64-bit values, n a multiple of 16.
ShiftLeft(a, n) == SubSeq(a, n \div 16 + 1, 4) \o [i \in 1..(n \div 16) |-> 0]

ShiftRight(a, n) == [i \in 1..(n \div 16) |-> 0] \o SubSeq(a, 1, 4 - n \div 16)

\* static_cast<uint16_t> of a 64-bit value.
Low16(a) == a[4]

\* A plausible slip: the shifts of minor and build are exchanged.
to_uint64_swapped(v) ==
  Or64(Or64(Or64(ShiftLeft(Uint64(v.m_major), 48), ShiftLeft(Uint64(v.m_minor), 16)),
            ShiftLeft(Uint64(v.m_build), 32)),
       Uint64(v.m_qfe))

\* operator uint64_t: the four 16-bit fields packed, most significant first.
to_uint64(v) ==
  Or64(Or64(Or64(ShiftLeft(Uint64(v.m_major), 48), ShiftLeft(Uint64(v.m_minor), 32)),
            ShiftLeft(Uint64(v.m_build), 16)),
       Uint64(v.m_qfe))

\* version_t(uint64_t rhs)
version_t_uint64(rhs) ==
  [m_major |-> Low16(ShiftRight(rhs, 48)), m_minor |-> Low16(ShiftRight(rhs, 32)),
   m_build |-> Low16(ShiftRight(rhs, 16)), m_qfe |-> Low16(rhs)]

\* a < b for 64-bit values given by their digits.
RECURSIVE Uint64Less(_, _)
Uint64Less(a, b) ==
  IF a = <<>> THEN FALSE
  ELSE IF Head(a) # Head(b) THEN Head(a) < Head(b)
  ELSE Uint64Less(Tail(a), Tail(b))

version_less(a, b) == Uint64Less(to_uint64(a), to_uint64(b))

version_less_equal(a, b) == ~Uint64Less(to_uint64(b), to_uint64(a))

version_greater(a, b) == Uint64Less(to_uint64(b), to_uint64(a))

version_greater_equal(a, b) == ~Uint64Less(to_uint64(a), to_uint64(b))

version_not_equal(a, b) == to_uint64(a) # to_uint64(b)

version_equal(a, b) == to_uint64(a) = to_uint64(b)

\* resolve_args: the parser it leaves in m_parser and the message of the
\* exception it ended with ("" when it returned).
Resolved(parser, error) == [parser |-> parser, error |-> error]

\* The checks resolve_args makes once m_parser->parse has run.  An exception
\* of parse leaves resolve_args as it is; its message is not told apart.
Validate(parser, vc_version) ==
  IF parser.err THEN Resolved(parser, "Expected another item.")
  ELSE IF ~parser.m_compile_only
    THEN Resolved(parser, "Cannot handle invocation with chained link.")
  ELSE IF Len(parser.m_input_files) > 1 /\ ~obj_path_is_dir(parser)
    THEN Resolved(parser, "Single object file path specified for multiple inputs.")
  ELSE IF parser.m_debug_format = "kSeparateFile"
          \/ parser.m_debug_format = "kSeparateFileEditAndContinue"
    THEN Resolved(parser, "Cannot handle invocation with shared pdb file. Use /Z7 instead.")
  ELSE IF version_less(vc_version, version_t(14, 27, 0, 0))
    THEN Resolved(parser, "VC Tools >= 14.27 is required for /sourceDependencies support.")
  ELSE Resolved(parser, "")

resolve_args(argv, cl_prefix, cl_postfix, fs, vc_version) ==
  Validate(parse(cmdline_parser_t, argv, cl_prefix, cl_postfix, fs), vc_version)

MaxResolveArgs == 3

ResolveTokens ==
  {"a.cpp", "b.cpp", "/Foout.obj", "/Foout/", "/Foout\\", "/ZI", "/Zi", "/Z7", "/D"}

VcVersions ==
  {version_t(14, 26, 65535, 65535), version_t(14, 27, 0, 0), version_t(13, 99, 0, 0),
   version_t(15, 0, 0, 0)}

\* No call was made on the wrapper yet.
NoCall ==
  /\ w_entry = EmptyMap
  /\ w_hit = FALSE
  /\ w_src_deps = <<>>
  /\ w_miss = <<>>
  /\ w_raised = FALSE
  /\ w_before = EmptyMap
  /\ w_op = "none"

LedgerIdle ==
  /\ w_include_env = <<>>
  /\ w_include_paths = <<>>
  /\ w_dependencies = EmptyMap
  /\ w_disk = EmptyMap
  /\ NoCall

ResolveInit ==
  /\ p_argv \in {<<"cl.exe">> \o a : a \in BoundedSeq(ResolveTokens, MaxResolveArgs)}
  /\ p_cl \in {EnvUnset, EnvValue("/c")}
  /\ p_clpost = EnvUnset
  /\ p_fs = RspFs
  /\ ParserStart
  /\ w_pc = "constructed"
  /\ w_version \in VcVersions
  /\ w_resolved = ""
  /\ LedgerIdle

ResolveArgs ==
  /\ w_pc = "constructed"
  /\ LET r == resolve_args(p_argv, p_cl, p_clpost, p_fs, w_version)
     IN  /\ p_model' = r.parser
         /\ w_resolved' = r.error
  /\ w_pc' = "resolved"
  /\ UNCHANGED <<p_pc, p_argv, p_cl, p_clpost, p_fs, p_mode, p_merged, p_split, p_alt,
                 w_version, ledgerVars, exceptWrapper>>

ResolveNext == ResolveArgs

\* The object path names a directory: it is empty or ends in '\' or '/'.
ObjectPathIsDirectory ==
  \/ p_model.m_object_path = ""
  \/ \E dir \in {"out\\", "out/"} : p_model.m_object_path = dir

\* C9: resolve_args succeeds if and only if compile_only is true, there is at
\* most one input file or the object path is a directory, the final debug
\* format is neither /Zi nor /ZI, and vc_version >= 14.27.0.0; in every
\* other case it ends with an error.
C9_Validation ==
  w_pc = "resolved" =>
    (w_resolved = "" <=>
       /\ ~p_model.err
       /\ p_model.m_compile_only
       /\ (Len(p_model.m_input_files) <= 1 \/ ObjectPathIsDirectory)
       /\ p_model.m_debug_format \notin {"kSeparateFile", "kSeparateFileEditAndContinue"}
       /\ (w_version.m_major > 14 \/ (w_version.m_major = 14 /\ w_version.m_minor >= 27)))

\* C9 witness: two inputs with one object file path were declined, as in
\* cl /c a.cpp b.cpp /Foout.obj.
C9_Witness ==
  /\ w_pc = "resolved"
  /\ p_cl = EnvValue("/c")
  /\ Tail(p_argv) = <<"a.cpp", "b.cpp", "/Foout.obj">>
  /\ w_version = version_t(14, 27, 0, 0)
  /\ w_resolved = "Single object file path specified for multiple inputs."

(***************************************************************************)
(* The dependency ledger of msvc_wrapper_t.  Paths are byte strings, as    *)
(* the keys of the dependency records are.                                 *)
(***************************************************************************)

lower_case_bytes(str) ==
  [i \in 1..Len(str) |-> IF str[i] \in 65..90 THEN str[i] + 32 ELSE str[i]]

NPOS == -1

\* str.find_first_of(delimiter, pos), positions counted from 0.
find_first_of(str, delimiter, pos) ==
  IF \E i \in pos..(Len(str) - 1) : str[i + 1] = delimiter
  THEN CHOOSE i \in pos..(Len(str) - 1) :
         /\ str[i + 1] = delimiter
         /\ \A j \in pos..(i - 1) : str[j + 1] # delimiter
  ELSE NPOS

\* The loop of split from position pos on.
RECURSIVE SplitFrom(_, _, _)
SplitFrom(str, delimiter, pos) ==
  IF find_first_of(str, delimiter, pos) = NPOS THEN <<substr(str, pos)>>
  ELSE <<substr_n(str, pos, find_first_of(str, delimiter, pos) - pos)>>
         \o SplitFrom(str, delimiter, find_first_of(str, delimiter, pos) + 1)

split(str, delimiter) == SplitFrom(str, delimiter, 0)

SEMICOLON == 59

\* The loop of the constructor over the entries of INCLUDE.
RECURSIVE IncludePaths(_)
IncludePaths(entries) ==
  IF entries = <<>> THEN <<>>
  ELSE IF Head(entries) = <<>> THEN IncludePaths(Tail(entries))
  ELSE <<lower_case_bytes(Head(entries))>> \o IncludePaths(Tail(entries))

\* msvc_wrapper_t::msvc_wrapper_t: m_env_include_paths.
msvc_wrapper_t(include_env) == IncludePaths(split(include_env, SEMICOLON))

\* hasher_t: the digest of a file's content.
Digest(content) == <<content, 255 - content>>

\* The name under which the file system keeps a file: it ignores letter case.
FileKey(path) == lower_case_bytes(path)

\* hasher.update_from_file(path) and final(): the digest, or ok = FALSE for
\* the exception when the file cannot be read.
update_from_file(disk, path) ==
  IF FileKey(path) \in DOMAIN disk
  THEN [ok |-> TRUE, digest |-> Digest(disk[FileKey(path)])]
  ELSE [ok |-> FALSE, digest |-> <<>>]

get_dependency_digest(dependencies, path) ==
  IF path \in DOMAIN dependencies
  THEN [found |-> TRUE, digest |-> dependencies[path]]
  ELSE [found |-> FALSE, digest |-> <<>>]

set_dependency_digest(dependencies, path, digest) == MapSet(dependencies, path, digest)

\* One turn of the loop of filter_cache_hit: whether the loop goes on, whether
\* an exception left the function, and m_dependencies.
Checked(ok, raised, dependencies) ==
  [ok |-> ok, raised |-> raised, dependencies |-> dependencies]

\* A plausible slip: the file is hashed again although the ledger has it.
check_dependency_rehash(dependencies, disk, include, cached) ==
  IF ~update_from_file(disk, include).ok THEN Checked(FALSE, FALSE, dependencies)
  ELSE Checked(update_from_file(disk, include).digest = cached, FALSE,
               set_dependency_digest(dependencies, include,
                                     update_from_file(disk, include).digest))

\* A plausible slip: a digest of the ledger that differs from the cached one
\* is taken to be out of date, and the file is hashed again.
check_dependency_refresh(dependencies, disk, include, cached) ==
  IF get_dependency_digest(dependencies, include).found
     /\ get_dependency_digest(dependencies, include).digest = cached
  THEN Checked(TRUE, FALSE, dependencies)
  ELSE IF ~update_from_file(disk, include).ok THEN Checked(FALSE, FALSE, dependencies)
  ELSE Checked(update_from_file(disk, include).digest = cached, FALSE,
               set_dependency_digest(dependencies, include,
                                     update_from_file(disk, include).digest))

check_dependency(dependencies, disk, include, cached) ==
  IF get_dependency_digest(dependencies, include).found
  THEN Checked(get_dependency_digest(dependencies, include).digest = cached, FALSE,
               dependencies)
  ELSE IF ~update_from_file(disk, include).ok THEN Checked(FALSE, FALSE, dependencies)
  ELSE Checked(update_from_file(disk, include).digest = cached, FALSE,
               set_dependency_digest(dependencies, include,
                                     update_from_file(disk, include).digest))

\* The loop of filter_cache_hit over the records of the entry, in key order.
RECURSIVE FilterLoop(_, _, _, _, _)
FilterLoop(dependencies, disk, records, keys, i) ==
  IF i > Len(keys) THEN Checked(TRUE, FALSE, dependencies)
  ELSE LET c == check_dependency(dependencies, disk, keys[i], records[keys[i]])
       IN  IF ~c.ok THEN c ELSE FilterLoop(c.dependencies, disk, records, keys, i + 1)

filter_cache_hit(dependencies, disk, records) ==
  FilterLoop(dependencies, disk, records, MapOrder(DOMAIN records), 1)

\* A plausible slip: only the first directory of INCLUDE is looked at.
is_system_include_first(include_paths, path) ==
  include_paths # <<>> /\ starts_with(path, include_paths[1])

is_system_include(include_paths, path) ==
  \E i \in 1..Len(include_paths) : starts_with(path, include_paths[i])

\* The loop of run_for_miss over the includes of one missed input: whether
\* an exception left it, m_dependencies, and the record built so far.
Missed(raised, dependencies, record) ==
  [raised |-> raised, dependencies |-> dependencies, record |-> record]

RECURSIVE DepsLoop(_, _, _, _, _, _)
DepsLoop(dependencies, disk, include_paths, src_deps, i, record) ==
  IF i > Len(src_deps) THEN Missed(FALSE, dependencies, record)
  ELSE LET include == src_deps[i]
           got == get_dependency_digest(dependencies, include)
           h == update_from_file(disk, include)
       IN  IF got.found
           THEN DepsLoop(dependencies, disk, include_paths, src_deps, i + 1,
                         MapSet(record, include, got.digest))
           ELSE IF is_system_include(include_paths, include)
             THEN DepsLoop(dependencies, disk, include_paths, src_deps, i + 1, record)
           ELSE IF ~h.ok THEN Missed(TRUE, dependencies, record)
           ELSE DepsLoop(set_dependency_digest(dependencies, include, h.digest), disk,
                         include_paths, src_deps, i + 1, MapSet(record, include, h.digest))

\* The loop of run_for_miss over the missed inputs; reported[k] is what the
\* compiler wrote as the includes of input k.  The descriptors come with
\* empty records and keep them where the loop did not get to.
RECURSIVE MissLoop(_, _, _, _, _, _)
MissLoop(dependencies, disk, include_paths, reported, k, records) ==
  IF k > Len(reported)
  THEN [raised |-> FALSE, dependencies |-> dependencies, records |-> records]
  ELSE LET d == DepsLoop(dependencies, disk, include_paths, reported[k], 1, EmptyMap)
       IN  IF d.raised
           THEN [raised |-> TRUE, dependencies |-> d.dependencies, records |-> records]
           ELSE MissLoop(d.dependencies, disk, include_paths, reported, k + 1,
                         [records EXCEPT ![k] = d.record])

run_for_miss(dependencies, disk, include_paths, reported) ==
  MissLoop(dependencies, disk, include_paths, reported, 1,
           [k \in 1..Len(reported) |-> EmptyMap])

(***************************************************************************)
(* One wrapper instance: filter_cache_hit and run_for_miss in any order,   *)
(* while files change on disk                                              *)
(***************************************************************************)

MaxMisses == 2

SysLower == <<115, 92, 97>>      \* s\a
SysMixed == <<83, 92, 97>>       \* S\a
UserPath == <<117, 92, 98>>      \* u\b

ReportedPaths == {SysLower, SysMixed, UserPath}

\* INCLUDE: not set, "S\" and "x\;;S\".
IncludeValues == {<<>>, <<83, 92>>, <<120, 92, 59, 59, 83, 92>>}

Contents == {1, 2}

\* The header s\a is always there; the header u\b comes, changes and goes.
Disks ==
  {[f \in {SysLower} |-> 1]}
    \cup {[f \in {SysLower, UserPath} |-> IF f = SysLower THEN 1 ELSE c] : c \in Contents}

\* The records of a cached entry: made when s\a was what it is now.
CachedRecords ==
  {r \in UNION {[keys -> {Digest(c) : c \in Contents}] : keys \in SUBSET ReportedPaths} :
     \A f \in DOMAIN r : f # UserPath => r[f] = Digest(1)}

\* What the compiler reports as the includes of one input.
ReportedLists ==
  {<<UserPath>>, <<SysLower, UserPath>>, <<SysMixed>>, <<UserPath, SysMixed>>}

Reports == BoundedSeq(ReportedLists, MaxMisses) \ {<<>>}

LedgerInit ==
  /\ w_pc = "running"
  /\ w_version = version_t(14, 27, 0, 0)
  /\ w_resolved = ""
  /\ w_include_env \in IncludeValues
  /\ w_include_paths = msvc_wrapper_t(w_include_env)
  /\ w_dependencies = EmptyMap
  /\ w_disk \in Disks
  /\ NoCall

FilterCacheHit ==
  /\ w_pc = "running"
  /\ \E records \in CachedRecords :
       LET r == filter_cache_hit(w_dependencies, w_disk, records)
       IN  /\ w_entry' = records
           /\ w_hit' = r.ok
           /\ w_raised' = r.raised
           /\ w_dependencies' = r.dependencies
  /\ w_before' = w_dependencies
  /\ w_op' = "filter_cache_hit"
  /\ w_src_deps' = <<>>
  /\ w_miss' = <<>>
  /\ UNCHANGED <<w_pc, resolveVars, w_include_env, w_include_paths, w_disk, parserVars,
                 exceptWrapper>>

RunForMiss ==
  /\ w_pc = "running"
  /\ \E reported \in Reports :
       LET r == run_for_miss(w_dependencies, w_disk, w_include_paths, reported)
       IN  /\ w_src_deps' = reported
           /\ w_miss' = r.records
           /\ w_raised' = r.raised
           /\ w_dependencies' = r.dependencies
  /\ w_before' = w_dependencies
  /\ w_op' = "run_for_miss"
  /\ w_entry' = EmptyMap
  /\ w_hit' = FALSE
  /\ UNCHANGED <<w_pc, resolveVars, w_include_env, w_include_paths, w_disk, parserVars,
                 exceptWrapper>>

\* Between two calls a file is written, or removed.
ModifyFile ==
  /\ w_pc = "running"
  /\ w_disk' \in Disks \ {w_disk}
  /\ w_op' = "modify"
  /\ w_entry' = EmptyMap
  /\ w_hit' = FALSE
  /\ w_src_deps' = <<>>
  /\ w_miss' = <<>>
  /\ w_raised' = FALSE
  /\ w_before' = w_dependencies
  /\ UNCHANGED <<w_pc, resolveVars, w_include_env, w_include_paths, w_dependencies,
                 parserVars, exceptWrapper>>

LedgerNext ==
  \/ FilterCacheHit
  \/ RunForMiss
  \/ ModifyFile

\* The non-empty entries of INCLUDE.
IncludeEntries ==
  {split(w_include_env, SEMICOLON)[i] : i \in 1..Len(split(w_include_env, SEMICOLON))}
    \ {<<>>}

\* The keys of the records stored on the miss descriptors.
StoredKeys == UNION {DOMAIN w_miss[k] : k \in 1..Len(w_miss)}

\* a begins with b.
BeginsWith(a, b) == Len(b) <= Len(a) /\ \A i \in 1..Len(b) : a[i] = b[i]

\* C7 as stated: no dependency record stored on a miss descriptor contains a
\* key whose lower-cased form begins with the lower-cased form of a
\* non-empty entry of INCLUDE, whatever the letter case of the reported
\* paths and whatever the ledger already holds.
C7_Original ==
  w_op = "run_for_miss" =>
    \A key \in StoredKeys : \A entry \in IncludeEntries :
      ~BeginsWith(lower_case_bytes(key), lower_case_bytes(entry))

\* C7: a key of a dependency record stored by run_for_miss either was in the
\* ledger when the call began, or does not begin, as the compiler reported
\* it, with the lower-cased form of any non-empty entry of INCLUDE.
C7_SystemExclusion ==
  w_op = "run_for_miss" =>
    \A key \in StoredKeys :
      \/ key \in DOMAIN w_before
      \/ \A entry \in IncludeEntries : ~BeginsWith(key, lower_case_bytes(entry))

\* C7 witness: the compiler reported a system header and a user header; the
\* record has the user header only.
C7_Witness ==
  /\ w_op = "run_for_miss"
  /\ w_include_env = <<120, 92, 59, 59, 83, 92>>
  /\ w_src_deps = <<<<SysLower, UserPath>>>>
  /\ ~w_raised
  /\ w_before = EmptyMap
  /\ DOMAIN w_miss[1] = {UserPath}

\* The digest filter_cache_hit obtains for an include: the ledger's value
\* when the ledger has one, otherwise the digest of the file; <<>> when
\* there is neither.
Obtained(include) ==
  IF include \in DOMAIN w_before THEN w_before[include]
  ELSE IF \E f \in DOMAIN w_disk : f = lower_case_bytes(include)
    THEN Digest(w_disk[lower_case_bytes(include)])
  ELSE <<>>

\* C8: filter_cache_hit accepts if and only if for every (include, cached
\* digest) of the entry the digest obtained (the ledger's value, otherwise a
\* fresh hash, then recorded in the ledger) equals the cached one; a failure
\* to hash rejects and raises nothing.
C8_FilterCacheHit ==
  w_op = "filter_cache_hit" =>
    /\ ~w_raised
    /\ w_hit <=> \A include \in DOMAIN w_entry :
                   Obtained(include) # <<>> /\ Obtained(include) = w_entry[include]
    /\ w_hit => \A include \in DOMAIN w_entry :
                  /\ include \in DOMAIN w_dependencies
                  /\ w_dependencies[include] = Obtained(include)
    /\ \A path \in DOMAIN w_before :
         path \in DOMAIN w_dependencies /\ w_dependencies[path] = w_before[path]

\* C8 witness: a hit was accepted on the ledger's digest of a file that has
\* changed since, and on a fresh hash of another file.
C8_Witness ==
  /\ w_op = "filter_cache_hit"
  /\ w_hit
  /\ w_entry = [f \in {SysLower, UserPath} |-> Digest(1)]
  /\ DOMAIN w_before = {UserPath}
  /\ w_disk = [f \in {SysLower, UserPath} |-> IF f = SysLower THEN 1 ELSE 2]
  /\ w_dependencies[SysLower] = Digest(1)

(***************************************************************************)
(* The type of an input file                                               *)
(***************************************************************************)

\* The place (1-based) of the last character of str that is in chars, or 0.
RECURSIVE LastOf(_, _, _)
LastOf(str, chars, i) ==
  IF i = 0 THEN 0
  ELSE IF SubSeq(str, i, i) \in chars THEN i
  ELSE LastOf(str, chars, i - 1)

\* file::get_extension: from the last '.' of the file part on, "" without one.
get_extension(name) ==
  IF LastOf(name, {"."}, Len(name)) > LastOf(name, {"\\", "/"}, Len(name))
  THEN substr(name, LastOf(name, {"."}, Len(name)) - 1)
  ELSE ""

filename_to_type(name) ==
  IF lower_case(get_extension(name)) = ".c" THEN "kC"
  ELSE IF lower_case(get_extension(name)) \in {".cpp", ".cxx", ".cc"} THEN "kCpp"
  ELSE "kObject"

effective_file_type(p, file) ==
  IF file.type # "kUnknown" THEN file.type
  ELSE IF p.m_default_input_type = "kC" \/ p.m_default_input_type = "kCpp"
    THEN p.m_default_input_type
  ELSE filename_to_type(file.name)

\* The tokens merge(All) ends with: one for each input file.
InputTokens ==
  SubSeq(p_merged, Len(p_merged) - Len(p_model.m_input_files) + 1, Len(p_merged))

\* How a file of the given type is written: /Tc, /Tp or nothing before the name.
Written(type, name) ==
  CASE type = "kC" -> "/Tc" \o name
    [] type = "kCpp" -> "/Tp" \o name
    [] OTHER -> name

\* C12 as stated: in merge(All) every input file is emitted according to its
\* effective type, so a bare foo.cpp with no /TC or /TP comes out as
\* /Tpfoo.cpp.
C12_Original ==
  (p_pc = "merged" /\ p_mode = "kAll") =>
    \A i \in 1..Len(p_model.m_input_files) :
      InputTokens[i] = Written(effective_file_type(p_model, p_model.m_input_files[i]),
                               p_model.m_input_files[i].name)

\* C12: in merge(All) every input file is emitted according to its declared
\* type: /Tc<name> or /Tp<name> when it was given with /Tc or /Tp, and the
\* bare name when it was given as a bare name, whatever its effective type.
C12_DeclaredType ==
  (p_pc = "merged" /\ p_mode = "kAll") =>
    \A i \in 1..Len(p_model.m_input_files) :
      InputTokens[i] = Written(p_model.m_input_files[i].type,
                               p_model.m_input_files[i].name)

\* C12 witness: /Tca.c and the bare name b.cpp, whose effective type is Cpp,
\* were merged.
C12_Witness ==
  /\ p_pc = "merged"
  /\ p_mode = "kAll"
  /\ p_model.m_input_files = <<InputFile("a.c", "kC"), InputFile("b.cpp", "kUnknown")>>
  /\ effective_file_type(p_model, p_model.m_input_files[2]) = "kCpp"
  /\ p_merged = <<"/Tca.c", "b.cpp">>

(***************************************************************************)
(* Options that admit a colon: Fd, Fo, Fp                                  *)
(***************************************************************************)

\* The first argument is one of /Fd, /Fo, /Fp, with whatever follows.
ColonOptionFirst ==
  /\ p_pc = "parsed"
  /\ Len(p_argv) >= 2
  /\ Len(p_argv[2]) >= 3
  /\ SubSeq(p_argv[2], 1, 1) \in {"/", "-"}
  /\ SubSeq(p_argv[2], 2, 3) \in {"Fd", "Fo", "Fp"}

\* What follows the two letters, and the same without one leading colon.
Suffix == SubSeq(p_argv[2], 4, Len(p_argv[2]))
SuffixValue == IF Suffix # "" /\ SubSeq(Suffix, 1, 1) = ":" THEN Tail(Suffix) ELSE Suffix

\* The member the option sets.
ColonField(p) ==
  CASE SubSeq(p_argv[2], 2, 3) = "Fd" -> p.m_pdb_path
    [] SubSeq(p_argv[2], 2, 3) = "Fo" -> p.m_object_path
    [] SubSeq(p_argv[2], 2, 3) = "Fp" -> p.m_pch_config.path

\* A non-empty suffix is the value, and the next token stays a token of its own.
SuffixIsValue ==
  (ColonOptionFirst /\ SuffixValue # "") =>
    /\ Len(p_argv) = 2 => (~p_model.err /\ ColonField(p_model) = sanitize_path(SuffixValue))
    /\ (Len(p_argv) = 3 /\ p_argv[3] = "b.cpp") =>
         (/\ ~p_model.err
          /\ ColonField(p_model) = sanitize_path(SuffixValue)
          /\ p_model.m_input_files = <<InputFile("b.cpp", "kUnknown")>>)

\* An empty suffix without a colon takes the next token as the value.
ColonlessTakesNext ==
  (ColonOptionFirst /\ Suffix = "" /\ Len(p_argv) = 3) =>
    (~p_model.err /\ ColonField(p_model) = sanitize_path(p_argv[3]))

\* An empty suffix with a colon does not take the next token as the value.
ColonNeverConsumes ==
  (ColonOptionFirst /\ Suffix = ":" /\ Len(p_argv) = 3) =>
    ColonField(p_model) = ""

\* An empty suffix, with or without a colon, ends the parse with an error
\* and takes nothing: no member has changed.
EmptySuffixFails ==
  (ColonOptionFirst /\ SuffixValue = "") =>
    (p_model.err /\ Model(p_model) = Model(cmdline_parser_t))

\* C15 as stated: for Fd, Fo and Fp a non-empty suffix is the value, an empty
\* suffix without a colon takes the next token as its value, and an empty
\* suffix with a colon never consumes the next token.
C15_Original == SuffixIsValue /\ ColonlessTakesNext /\ ColonNeverConsumes

\* C15: for Fd, Fo and Fp a non-empty suffix (after dropping one leading
\* colon) is the value; an empty suffix, written with or without a colon,
\* never consumes the next token: the parse ends with an error.
C15_ColonOptions == SuffixIsValue /\ ColonNeverConsumes /\ EmptySuffixFails

\* C15 witness: /Fo followed by b.cpp was parsed, and failed.
C15_Witness ==
  /\ p_pc = "parsed"
  /\ p_argv = <<"cl.exe", "/Fo", "b.cpp">>
  /\ p_model.err
  /\ p_model.m_object_path = ""
  /\ p_model.m_input_files = <<>>

(***************************************************************************)
(* /link in the argument list, in CL and in a response file                *)
(***************************************************************************)

MaxLinkArgs == 3

LinkTokens == {"/c", "/D", "X", "/link", "-link", "a.c", "@r.rsp"}

LinkInit ==
  /\ p_argv \in {<<"cl.exe">> \o a : a \in BoundedSeq(LinkTokens, MaxLinkArgs)}
  /\ p_cl \in {EnvUnset, EnvValue("/DA /link /c")}
  /\ p_clpost \in {EnvUnset, EnvValue("b.c")}
  /\ p_fs = RspFs
  /\ ParserStart

LinkNext == Parse

\* The parse of the first k arguments alone, CL, _CL_ and the files as they are.
ParseUpTo(k) ==
  parse(cmdline_parser_t, <<p_argv[1]>> \o SubSeq(Tail(p_argv), 1, k), p_cl, p_clpost, p_fs)

\* The environment and the files with everything from /link on cut from the
\* line that holds it.
CutCl == IF p_cl = EnvValue("/DA /link /c") THEN EnvValue("/DA") ELSE p_cl
CutFs == [name \in {"r.rsp"} |-> <<"/DZ", "b.c">>]

\* C16 as stated: when a token list contains /link or -link, the model after
\* the list equals the model just before the link token; the tokens of other
\* lists are still parsed.
C16_Original ==
  p_pc = "parsed" =>
    /\ \A k \in 1..(Len(p_argv) - 1) :
         IsLink(Tail(p_argv)[k]) => SameOutcome(p_model, ParseUpTo(k - 1))
    /\ SameOutcome(p_model, parse(cmdline_parser_t, p_argv, CutCl, p_clpost, CutFs))

\* C16: when /link or -link is read as an option (it is not the value of a
\* /D, /I, /Tc or /Tp just before it), the model after the list equals the
\* model just before the link token; the later lines of a response file and
\* _CL_ are still parsed.
C16_LinkFrame ==
  p_pc = "parsed" =>
    /\ \A k \in 1..(Len(p_argv) - 1) :
         (IsLink(Tail(p_argv)[k]) /\ ~AwaitsValue(SubSeq(Tail(p_argv), 1, k - 1)))
           => SameOutcome(p_model, ParseUpTo(k - 1))
    /\ SameOutcome(p_model, parse(cmdline_parser_t, p_argv, CutCl, p_clpost, CutFs))

\* C16 witness: /link was met in CL, in the response file and in argv; the
\* second line of the file and _CL_ were still parsed.
C16_Witness ==
  /\ p_pc = "parsed"
  /\ p_cl = EnvValue("/DA /link /c")
  /\ p_clpost = EnvValue("b.c")
  /\ Tail(p_argv) = <<"@r.rsp", "-link", "/c">>
  /\ ~p_model.err
  /\ ~p_model.m_compile_only
  /\ p_model.m_defines = <<"A", "Z">>
  /\ p_model.m_input_files = <<InputFile("b.c", "kUnknown"), InputFile("b.c", "kUnknown")>>

(***************************************************************************)
(* The order of the tokens merge gives                                     *)
(***************************************************************************)

\* The group a merged token belongs to, told from its text: 1 /c, 2 type
\* flag, 3 debug format, 4 other option, 5 /Fd:, 6 include, 7 define, 8 /Fo:,
\* 9 /Yc, 10 /Yu, 11 /Y-, 12 /Fp:, 13 input file.
GroupOf(token) ==
  CASE token = "/c" -> 1
    [] token \in {"/TC", "/TP"} -> 2
    [] token \in {"/Z7", "/Zi", "/ZI"} -> 3
    [] starts_with(token, "/Fd:") -> 5
    [] starts_with(token, "/I") -> 6
    [] starts_with(token, "/D ") -> 7
    [] starts_with(token, "/Fo:") -> 8
    [] starts_with(token, "/Yc") -> 9
    [] starts_with(token, "/Yu") -> 10
    [] token = "/Y-" -> 11
    [] starts_with(token, "/Fp:") -> 12
    [] starts_with(token, "/Tc") \/ starts_with(token, "/Tp") -> 13
    [] ~starts_with(token, "/") -> 13
    [] OTHER -> 4

\* The merged tokens of one group, in the order they were emitted.
GroupTokens(g) == SelectSeq(p_merged, LAMBDA token : GroupOf(token) = g)

\* One token when the condition holds, none otherwise.
When(set, token) == IF set THEN <<token>> ELSE <<>>

\* C17: merge(All) emits its tokens in the group order /c, type flag, debug
\* format, other options, /Fd:, includes, defines, /Fo:, /Yc, /Yu, /Y-, /Fp:,
\* input files; a group appears only when it is set, and the groups of
\* several values keep the order of the parse.
C17_GroupOrder ==
  (p_pc = "merged" /\ p_mode = "kAll") =>
    /\ \A i \in 1..Len(p_merged) : \A j \in i..Len(p_merged) :
         GroupOf(p_merged[i]) <= GroupOf(p_merged[j])
    /\ GroupTokens(1) = When(p_model.m_compile_only, "/c")
    /\ GroupTokens(2) = When(p_model.m_default_input_type = "kC", "/TC")
                          \o When(p_model.m_default_input_type = "kCpp", "/TP")
    /\ GroupTokens(3) = When(p_model.m_debug_format = "kObjectFile", "/Z7")
                          \o When(p_model.m_debug_format = "kSeparateFile", "/Zi")
                          \o When(p_model.m_debug_format = "kSeparateFileEditAndContinue", "/ZI")
    /\ GroupTokens(4) = [i \in 1..Len(p_model.m_options) |-> "/" \o p_model.m_options[i]]
    /\ GroupTokens(5) = When(p_model.m_pdb_path # "", "/Fd:" \o p_model.m_pdb_path)
    /\ GroupTokens(6) = [i \in 1..Len(p_model.m_includes) |-> "/I" \o p_model.m_includes[i]]
    /\ GroupTokens(7) = [i \in 1..Len(p_model.m_defines) |-> "/D " \o p_model.m_defines[i]]
    /\ GroupTokens(8) = When(p_model.m_object_path # "", "/Fo:" \o p_model.m_object_path)
    /\ GroupTokens(9) = When(p_model.m_pch_config.create.enabled,
                             "/Yc" \o p_model.m_pch_config.create.value)
    /\ GroupTokens(10) = When(p_model.m_pch_config.use.enabled,
                              "/Yu" \o p_model.m_pch_config.use.value)
    /\ GroupTokens(11) = When(p_model.m_pch_config.ignore, "/Y-")
    /\ GroupTokens(12) = When(p_model.m_pch_config.path # "", "/Fp:" \o p_model.m_pch_config.path)
    /\ GroupTokens(13) = [i \in 1..Len(p_model.m_input_files) |->
                            Written(p_model.m_input_files[i].type,
                                    p_model.m_input_files[i].name)]

\* C17 witness: a define, then a response file that sets ten more groups,
\* were merged in mode All.
C17_Witness ==
  /\ p_pc = "merged"
  /\ p_mode = "kAll"
  /\ p_argv = <<"cl.exe", "/DX", "@all.rsp">>
  /\ p_model.m_defines = <<"X", "A=1">>
  /\ p_merged = <<"/c", "/TP", "/Z7", "/W4", "/Fd:x.pdb", "/Ii", "/D X", "/D A=1",
                  "/Fo:o\\", "/Ycs.h", "/Fp:p.pch", "a.c">>

(***************************************************************************)
(* The merge modes compared                                                *)
(***************************************************************************)

\* msvc_wrapper_t::get_relevant_arguments: the arguments that enter the
\* fingerprint.
get_relevant_arguments(p) == merge(p, "kDirectModeCommonArgs")

\* A token list without the tokens of one group.
Without(tokens, g) == SelectSeq(tokens, LAMBDA token : GroupOf(token) # g)

\* Other input files and other default types an invocation could have had.
OtherInputs ==
  {<<>>, <<InputFile("z.c", "kUnknown")>>,
   <<InputFile("a.c", "kC"), InputFile("b.cpp", "kCpp")>>}

DefaultTypes == {"kObject", "kC", "kCpp"}

\* C18: merge(SkipInputs) is merge(All) without the input-file tokens,
\* merge(DirectModeCommonArgs) is merge(SkipInputs) without the /TC or /TP
\* flag, and the arguments fed to the fingerprint are the same for every
\* model that differs from the parsed one only in its input files or in its
\* default type.
C18_ModeRelations ==
  /\ (p_pc = "merged" /\ p_mode = "kSkipInputs") =>
       p_merged = Without(merge(p_model, "kAll"), 13)
  /\ (p_pc = "merged" /\ p_mode = "kDirectModeCommonArgs") =>
       /\ p_merged = Without(merge(p_model, "kSkipInputs"), 2)
       /\ p_merged = get_relevant_arguments(p_model)
       /\ \A files \in OtherInputs : \A type \in DefaultTypes :
            get_relevant_arguments([p_model EXCEPT !.m_input_files = files,
                                                   !.m_default_input_type = type])
              = p_merged

\* C18 witness: a command line with /TP and two input files was merged for
\* the fingerprint; its merge(All) holds the flag and both files, the merged
\* list holds neither.
C18_Witness ==
  /\ p_pc = "merged"
  /\ p_mode = "kDirectModeCommonArgs"
  /\ p_argv = <<"cl.exe", "@all.rsp", "/Tca.c">>
  /\ merge(p_model, "kAll") =
       <<"/c", "/TP", "/Z7", "/W4", "/Fd:x.pdb", "/Ii", "/D A=1", "/Fo:o\\", "/Ycs.h",
         "/Fp:p.pch", "a.c", "/Tca.c">>
  /\ merge(p_model, "kSkipInputs") =
       <<"/c", "/TP", "/Z7", "/W4", "/Fd:x.pdb", "/Ii", "/D A=1", "/Fo:o\\", "/Ycs.h",
         "/Fp:p.pch">>
  /\ p_merged =
       <<"/c", "/Z7", "/W4", "/Fd:x.pdb", "/Ii", "/D A=1", "/Fo:o\\", "/Ycs.h", "/Fp:p.pch">>

(***************************************************************************)
(* version_t: the comparison operators and the 64-bit value                *)
(***************************************************************************)

Majors == {0, 14, 65535}
Minors == {0, 65535}
Builds == {0, 1}
Qfes == {256, 65535}

Versions ==
  {version_t(major, minor, build, qfe) :
     major \in Majors, minor \in Minors, build \in Builds, qfe \in Qfes}

VersionInit ==
  /\ v_pc = "start"
  /\ v_a \in Versions
  /\ v_b \in Versions
  /\ v_c \in Versions
  /\ v_cmp = <<>>
  /\ v_packed = <<0, 0, 0, 0>>
  /\ v_back = version_t(0, 0, 0, 0)

\* What the six operators return for one pair.
Comparisons(a, b) ==
  [lt |-> version_less(a, b), le |-> version_less_equal(a, b),
   gt |-> version_greater(a, b), ge |-> version_greater_equal(a, b),
   ne |-> version_not_equal(a, b), eq |-> version_equal(a, b)]

\* The versions are compared pair by pair, and the first one is converted to
\* its 64-bit value and back.
Compare ==
  /\ v_pc = "start"
  /\ v_cmp' = [ab |-> Comparisons(v_a, v_b), bc |-> Comparisons(v_b, v_c),
               ac |-> Comparisons(v_a, v_c), ba |-> Comparisons(v_b, v_a)]
  /\ v_packed' = to_uint64(v_a)
  /\ v_back' = version_t_uint64(to_uint64(v_a))
  /\ v_pc' = "compared"
  /\ UNCHANGED <<v_a, v_b, v_c, exceptVersion>>

VersionNext == Compare

\* (major, minor, build, qfe) of a comes before that of b.
TupleLess(a, b) ==
  \/ a.m_major < b.m_major
  \/ a.m_major = b.m_major /\ a.m_minor < b.m_minor
  \/ a.m_major = b.m_major /\ a.m_minor = b.m_minor /\ a.m_build < b.m_build
  \/ a.m_major = b.m_major /\ a.m_minor = b.m_minor /\ a.m_build = b.m_build
       /\ a.m_qfe < b.m_qfe

\* The six results are those of the lexicographic order of the tuples.
AsTuples(cmp, a, b) ==
  /\ cmp.lt = TupleLess(a, b)
  /\ cmp.le = (TupleLess(a, b) \/ a = b)
  /\ cmp.gt = TupleLess(b, a)
  /\ cmp.ge = (TupleLess(b, a) \/ a = b)
  /\ cmp.eq = (a = b)
  /\ cmp.ne = (a # b)

\* C14: the comparisons <, <=, >, >=, ==, != are those of the lexicographic
\* order of (major, minor, build, qfe); they form a total order (exactly one
\* of <, ==, > holds, < is transitive, <= both ways means equal); and a
\* version converted to its 64-bit value and back is the same version.
C14_TotalOrder ==
  v_pc = "compared" =>
    /\ AsTuples(v_cmp.ab, v_a, v_b)
    /\ AsTuples(v_cmp.bc, v_b, v_c)
    /\ AsTuples(v_cmp.ac, v_a, v_c)
    /\ AsTuples(v_cmp.ba, v_b, v_a)
    /\ Cardinality({k \in {"lt", "eq", "gt"} : v_cmp.ab[k]}) = 1
    /\ (v_cmp.ab.lt /\ v_cmp.bc.lt) => v_cmp.ac.lt
    /\ (v_cmp.ab.le /\ v_cmp.bc.le) => v_cmp.ac.le
    /\ (v_cmp.ab.le /\ v_cmp.ba.le) => v_a = v_b
    /\ v_back = v_a

\* C14 witness: 14.65535.0.65535 < 14.65535.1.256 < 65535.0.0.256 were
\* compared: the order is decided by the first field that differs, and the
\* first version came back from its 64-bit value.
C14_Witness ==
  /\ v_pc = "compared"
  /\ v_a = version_t(14, 65535, 0, 65535)
  /\ v_b = version_t(14, 65535, 1, 256)
  /\ v_c = version_t(65535, 0, 0, 256)
  /\ v_cmp.ab.lt /\ v_cmp.bc.lt /\ v_cmp.ac.lt /\ v_cmp.ba.gt
  /\ v_packed = <<14, 65535, 0, 65535>>
  /\ v_back = v_a

(***************************************************************************)
(* get_tool_version: host, target and version of the compiler              *)
(***************************************************************************)

DecimalDigits == "0123456789"

\* The code of a character: a digit, a letter, or one of . : \
CharCode(c) ==
  IF IndexIn(c, DecimalDigits) # 0 THEN 47 + IndexIn(c, DecimalDigits)
  ELSE IF IndexIn(c, UpperLetters) # 0 THEN 64 + IndexIn(c, UpperLetters)
  ELSE IF IndexIn(c, LowerLetters) # 0 THEN 96 + IndexIn(c, LowerLetters)
  ELSE IF c = "." THEN 46
  ELSE IF c = ":" THEN 58
  ELSE 92

\* The bytes of a string literal.
Bytes(s) == [i \in 1..Len(s) |-> CharCode(SubSeq(s, i, i))]

BACKSLASH == 92
DOT == 46

\* The digits std::atoi reads, as a number.
RECURSIVE AtoiDigits(_, _)
AtoiDigits(str, acc) ==
  IF str = <<>> \/ Head(str) \notin 48..57 THEN acc
  ELSE AtoiDigits(Tail(str), acc * 10 + (Head(str) - 48))

\* std::atoi: white space, an optional sign, then digits; 0 when there are none.
RECURSIVE atoi(_)
atoi(str) ==
  IF str = <<>> THEN 0
  ELSE IF Head(str) \in {32, 9, 10, 11, 12, 13} THEN atoi(Tail(str))
  ELSE IF Head(str) = 45 THEN 0 - AtoiDigits(Tail(str), 0)
  ELSE IF Head(str) = 43 THEN AtoiDigits(Tail(str), 0)
  ELSE AtoiDigits(str, 0)

\* version_t(const std::string& rhs)
version_t_string(rhs) ==
  LET vals == split(rhs, DOT)
      count == Min(4, Len(vals))
      field(i) == IF i <= count THEN atoi(vals[i]) % UINT16 ELSE 0
  IN  version_t(field(1), field(2), field(3), field(4))

tool_version_t(host_arch, target_arch, vc_version) ==
  [thrown |-> "", host_arch |-> host_arch, target_arch |-> target_arch,
   vc_version |-> vc_version]

\* get_tool_version left with a std::runtime_error.
ToolVersionError(what) ==
  [thrown |-> what, host_arch |-> <<>>, target_arch |-> <<>>,
   vc_version |-> version_t(0, 0, 0, 0)]

\* get_tool_version(compiler_path) with the three variables of the
\* environment as they are.  path_split[i] of the code is path_split[i + 1].
get_tool_version(compiler_path, vscmd_host_arch, vscmd_target_arch, vc_tools_version) ==
  LET path_split == split(compiler_path, BACKSLASH)
      n == Len(path_split)
      path_valid == /\ ~vscmd_host_arch.set
                    /\ n >= 3
                    /\ starts_with(path_split[n - 2], Bytes("Host"))
      host_arch == IF vscmd_host_arch.set THEN vscmd_host_arch.value
                   ELSE IF path_valid THEN substr(path_split[n - 2], 4)
                   ELSE <<>>
      target_arch == IF vscmd_target_arch.set THEN vscmd_target_arch.value
                     ELSE IF path_valid THEN path_split[n - 1]
                     ELSE <<>>
  IN  IF host_arch = <<>> \/ target_arch = <<>>
        THEN ToolVersionError("Failed to get compiler host/target architecture.")
      ELSE IF vc_tools_version.set
        THEN tool_version_t(host_arch, target_arch, version_t_string(vc_tools_version.value))
      ELSE IF n >= 5 /\ path_valid
        THEN tool_version_t(host_arch, target_arch, version_t_string(path_split[n - 4]))
      ELSE ToolVersionError("Failed to get VC version.")

\* An environment variable that is not set, for values kept as bytes.
EnvUnsetBytes == [set |-> FALSE, value |-> <<>>]

HostValues == {EnvUnsetBytes, EnvValue(Bytes("x64")), EnvValue(Bytes("arm64"))}
TargetValues == {EnvUnsetBytes, EnvValue(Bytes("x86"))}
VCToolsValues == {EnvUnsetBytes, EnvValue(Bytes("14.29.30133")), EnvValue(Bytes("14.40.70000.1.2"))}

CompilerPaths ==
  {Bytes("C:\\VS\\14.16.27023\\bin\\Hostx64\\x64\\cl.exe"),
   Bytes("14.2\\bin\\Hostx86\\arm\\cl.exe"),
   Bytes("bin\\Hostx64\\x64\\cl.exe"),
   Bytes("Hostx64\\x64\\cl.exe"),
   Bytes("C:\\VS\\14.16.27023\\bin\\amd64\\x64\\cl.exe"),
   Bytes("C:\\VS\\14.16.27023\\bin\\Host\\x64\\cl.exe"),
   Bytes("x64\\cl.exe"),
   Bytes("cl.exe")}

ToolInit ==
  /\ tv_pc = "start"
  /\ tv_host \in HostValues
  /\ tv_target \in TargetValues
  /\ tv_version \in VCToolsValues
  /\ tv_path \in CompilerPaths
  /\ tv_out = <<>>

Probe ==
  /\ tv_pc = "start"
  /\ tv_out' = get_tool_version(tv_path, tv_host, tv_target, tv_version)
  /\ tv_pc' = "probed"
  /\ UNCHANGED <<tv_host, tv_target, tv_version, tv_path, exceptTool>>

ToolNext == Probe

\* The elements of the compiler path, and element [n - k] of it.
PathParts == split(tv_path, BACKSLASH)

PathPart(k) == PathParts[Len(PathParts) - k + 1]

\* Element [n-3] of the path begins with "Host".
HostElement == Len(PathParts) >= 3 /\ starts_with(PathPart(3), Bytes("Host"))

\* What each field is expected to be: the variable when it is set, else the
\* element of the path, else nothing.
ExpectedHost ==
  IF tv_host.set THEN tv_host.value
  ELSE IF HostElement THEN substr(PathPart(3), 4)
  ELSE <<>>

ExpectedTarget ==
  IF tv_target.set THEN tv_target.value
  ELSE IF HostElement THEN PathPart(2)
  ELSE <<>>

ExpectedVersion ==
  IF tv_version.set THEN tv_version.value
  ELSE IF HostElement /\ Len(PathParts) >= 5 THEN PathPart(5)
  ELSE <<>>

\* C13: each of host arch, target arch and tool version is the environment
\* variable when it is set, and the element of the compiler path when the
\* variable is unset, element [n-3] begins with "Host" and the path is long
\* enough, whether or not the other two variables are set: when the three
\* fields can be had this way, get_tool_version returns them.
C13_Original ==
  (tv_pc = "probed" /\ ExpectedHost # <<>> /\ ExpectedTarget # <<>> /\ ExpectedVersion # <<>>) =>
    /\ tv_out.thrown = ""
    /\ tv_out.host_arch = ExpectedHost
    /\ tv_out.target_arch = ExpectedTarget
    /\ tv_out.vc_version = version_t_string(ExpectedVersion)

\* C13 witness: VSCMD_ARG_HOST_ARCH is set, the other two variables are not,
\* and the path ends in 14.16.27023\bin\Hostx64\x64\cl.exe; get_tool_version
\* has thrown.
C13_Witness ==
  /\ tv_pc = "probed"
  /\ tv_host = EnvValue(Bytes("x64"))
  /\ tv_target = EnvUnsetBytes
  /\ tv_version = EnvUnsetBytes
  /\ tv_path = Bytes("C:\\VS\\14.16.27023\\bin\\Hostx64\\x64\\cl.exe")
  /\ ExpectedTarget = Bytes("x64")
  /\ ExpectedVersion = Bytes("14.16.27023")
  /\ tv_out.thrown = "Failed to get compiler host/target architecture."

\* What get_tool_version does: the path supplies a field only when the host
\* variable is unset; with all three variables unset the three fields come
\* from the path, and with all three set they come from the variables.
ToolVersionAsCoded ==
  tv_pc = "probed" =>
    /\ (tv_host.set /\ ~tv_target.set) =>
         tv_out.thrown = "Failed to get compiler host/target architecture."
    /\ (tv_host.set /\ tv_target.set /\ ~tv_version.set) =>
         tv_out.thrown = "Failed to get VC version."
    /\ (~tv_host.set /\ ExpectedHost # <<>> /\ ExpectedTarget # <<>> /\ ExpectedVersion # <<>>) =>
         /\ tv_out.thrown = ""
         /\ tv_out.host_arch = ExpectedHost
         /\ tv_out.target_arch = ExpectedTarget
         /\ tv_out.vc_version = version_t_string(ExpectedVersion)
    /\ (tv_host.set /\ tv_target.set /\ tv_version.set) =>
         /\ tv_out.thrown = ""
         /\ tv_out.host_arch = tv_host.value
         /\ tv_out.target_arch = tv_target.value
         /\ tv_out.vc_version = version_t_string(tv_version.value)

(***************************************************************************)
(* run_for_miss and run_with_response_file: the compiler run on a miss     *)
(***************************************************************************)

\* The longest joined argument line handed to the compiler as it is.
MaxCommandLine == 8000

ENV_CL_PREFIX == "CL"
ENV_CL_POSTFIX == "_CL_"
ENV_VS_OUTPUT_REDIRECTION == "VS_UNICODE_OUTPUT"

\* The environment of the process: the three variables the wrapper unsets.
Environment(cl, clpost, vs) ==
  [name \in {ENV_CL_PREFIX, ENV_CL_POSTFIX, ENV_VS_OUTPUT_REDIRECTION} |->
     IF name = ENV_CL_PREFIX THEN cl
     ELSE IF name = ENV_CL_POSTFIX THEN clpost
     ELSE vs]

\* scoped_unset_env_t: the variable is unset until the scope is left.
scoped_unset_env(env, name) == [env EXCEPT ![name] = EnvUnset]

\* The paths file::tmp_file_t gives for the report directory and the
\* response file.
PreprocDir == "T"
RspPath == "R.rsp"

\* A child process as sys::run starts it: its argv, the environment it
\* sees, and the response file written for it ("" when there is none).
ChildProcess(argv, env, rsp) == [argv |-> argv, env |-> env, rsp |-> rsp]

\* A plausible slip: the variables are unset on the response file path only.
run_with_response_file_unset_late(m_args, args, env) ==
  IF Len(join(args, " ")) > MaxCommandLine
  THEN ChildProcess(<<m_args[1], "@" \o RspPath>>,
                    scoped_unset_env(scoped_unset_env(scoped_unset_env(env, ENV_CL_PREFIX),
                                                      ENV_CL_POSTFIX),
                                     ENV_VS_OUTPUT_REDIRECTION),
                    join(args, " "))
  ELSE ChildProcess(<<m_args[1]>> \o args, env, "")

\* run_with_response_file up to the start of the child.
run_with_response_file(m_args, args, env) ==
  IF Len(join(args, " ")) > MaxCommandLine
  THEN ChildProcess(<<m_args[1], "@" \o RspPath>>,
                    scoped_unset_env(scoped_unset_env(scoped_unset_env(env, ENV_CL_PREFIX),
                                                      ENV_CL_POSTFIX),
                                     ENV_VS_OUTPUT_REDIRECTION),
                    join(args, " "))
  ELSE ChildProcess(<<m_args[1]>> \o args,
                    scoped_unset_env(scoped_unset_env(scoped_unset_env(env, ENV_CL_PREFIX),
                                                      ENV_CL_POSTFIX),
                                     ENV_VS_OUTPUT_REDIRECTION),
                    "")

\* cmdline_parser_t::input_file_by_name: the first input file of that name.
input_file_by_name(p, name) ==
  IF \E i \in 1..Len(p.m_input_files) : p.m_input_files[i].name = name
  THEN [thrown |-> FALSE,
        file |-> p.m_input_files[CHOOSE i \in 1..Len(p.m_input_files) :
                                   /\ p.m_input_files[i].name = name
                                   /\ \A j \in 1..(i - 1) : p.m_input_files[j].name # name]]
  ELSE [thrown |-> TRUE, file |-> InputFile("", "kUnknown")]

\* A plausible slip: every input file of the command line is compiled again.
MissArgsAllInputs(p, names, args, log) ==
  [thrown |-> FALSE,
   args |-> args \o [i \in 1..Len(p.m_input_files) |-> as_arg(p.m_input_files[i])],
   log |-> log \o [i \in 1..Len(p.m_input_files) |->
                     <<"add_source", p.m_input_files[i].name>>]]

\* The first loop of run_for_miss: the arguments and the sources of the
\* tracking log, until a name is not found.
RECURSIVE MissArgs(_, _, _, _)
MissArgs(p, names, args, log) ==
  IF names = <<>> THEN [thrown |-> FALSE, args |-> args, log |-> log]
  ELSE IF input_file_by_name(p, Head(names)).thrown
    THEN [thrown |-> TRUE, args |-> args, log |-> log]
  ELSE MissArgs(p, Tail(names),
                Append(args, as_arg(input_file_by_name(p, Head(names)).file)),
                Append(log, <<"add_source", input_file_by_name(p, Head(names)).file.name>>))

\* A source dependency report as the compiler leaves it in the report
\* directory: no file, a file that is not JSON, or a JSON document with its
\* Version, and in Data its PCH (<<>> when absent) and its Includes.
NoReport ==
  [exists |-> FALSE, json |-> FALSE, version |-> "", data |-> FALSE, pch |-> <<>>,
   array |-> FALSE, includes |-> <<>>]

GarbageReport == [NoReport EXCEPT !.exists = TRUE]

JsonReport(version, pch, includes) ==
  [exists |-> TRUE, json |-> TRUE, version |-> version, data |-> TRUE, pch |-> pch,
   array |-> TRUE, includes |-> includes]

\* get_source_dependencies: the PCH and the includes of a report, or an
\* exception.
get_source_dependencies(report) ==
  IF ~report.exists \/ ~report.json \/ report.version # "1.0" \/ ~report.data
     \/ ~report.array
  THEN [thrown |-> TRUE, dependencies |-> <<>>]
  ELSE [thrown |-> FALSE,
        dependencies |-> (IF report.pch # <<>> THEN <<report.pch>> ELSE <<>>)
                           \o report.includes]

\* What run_for_miss leaves behind.
MissRun(thrown, result, runs, log, dependencies, records) ==
  [thrown |-> thrown, result |-> result, runs |-> runs, log |-> log,
   dependencies |-> dependencies, records |-> records]

run_result_t(return_code, std_out, std_err) ==
  [return_code |-> return_code, std_out |-> std_out, std_err |-> std_err]

\* A plausible slip: only the error output is dropped.
drop_output_err_only(result) == [result EXCEPT !.std_err = ""]

\* result.std_err = {}; result.std_out = {};
drop_output(result) == [result EXCEPT !.std_err = "", !.std_out = ""]

\* The second loop of run_for_miss, over the missed inputs from the k-th on.
RECURSIVE ReportLoop(_, _, _, _, _, _, _, _, _, _)
ReportLoop(names, reports, result, runs, disk, include_paths, k, log, dependencies, records) ==
  IF k > Len(names)
  THEN MissRun(FALSE, result, runs, log, dependencies, records)
  ELSE IF get_source_dependencies(reports[names[k]]).thrown
    THEN MissRun(TRUE, result, runs, Append(log, <<"read", names[k]>>), dependencies,
                 records)
  ELSE IF DepsLoop(dependencies, disk, include_paths,
                   get_source_dependencies(reports[names[k]]).dependencies, 1, EmptyMap).raised
    THEN MissRun(TRUE, result, runs, Append(log, <<"read", names[k]>>),
                 DepsLoop(dependencies, disk, include_paths,
                          get_source_dependencies(reports[names[k]]).dependencies, 1,
                          EmptyMap).dependencies,
                 records)
  ELSE ReportLoop(names, reports, result, runs, disk, include_paths, k + 1,
                  log \o <<(<<"read", names[k]>>), (<<"write_logs", names[k]>>)>>,
                  DepsLoop(dependencies, disk, include_paths,
                           get_source_dependencies(reports[names[k]]).dependencies, 1,
                           EmptyMap).dependencies,
                  [records EXCEPT ![k] =
                     DepsLoop(dependencies, disk, include_paths,
                              get_source_dependencies(reports[names[k]]).dependencies, 1,
                              EmptyMap).record])

\* run_for_miss once the arguments of the missed inputs are known: the
\* report directory, the one run, the output dropped, then the reports.
RunAndRead(first, m_args, env, names, outcome, dependencies, disk, include_paths) ==
  IF first.thrown
  THEN MissRun(TRUE, run_result_t(0, "", ""), <<>>, first.log, dependencies,
               [k \in 1..Len(names) |-> EmptyMap])
  ELSE ReportLoop(names, outcome.reports,
                  drop_output(run_result_t(outcome.return_code, outcome.std_out,
                                           outcome.std_err)),
                  <<run_with_response_file(
                      m_args, Append(first.args, "/sourceDependencies " \o PreprocDir), env)>>,
                  disk, include_paths, 1,
                  first.log \o <<(<<"finalize_sources", "">>), (<<"create_dir", PreprocDir>>),
                                 (<<"run", m_args[1]>>)>>,
                  dependencies, [k \in 1..Len(names) |-> EmptyMap])

\* msvc_wrapper_t::run_for_miss(miss_infos), the whole call.  outcome is
\* what the compiler does when it is run: its return code, its output, and
\* the reports it writes.
run_for_miss_call(parser, m_args, env, names, outcome, dependencies, disk, include_paths) ==
  RunAndRead(MissArgs(parser, names, merge(parser, "kSkipInputs"), <<>>),
             m_args, env, names, outcome, dependencies, disk, include_paths)

MaxRunArgs == 3

\* n times the letter x.
RECURSIVE Padding(_)
Padding(n) ==
  IF n = 0 THEN ""
  ELSE Padding(n \div 2) \o Padding(n \div 2) \o (IF n % 2 = 1 THEN "x" ELSE "")

\* Two defines that bring the joined line of "/c <define> a.c" and the
\* report option to MaxCommandLine bytes, and to one byte more.
DefineAtLimit == "/DL" \o Padding(MaxCommandLine - 33)
DefineOverLimit == "/DL" \o Padding(MaxCommandLine - 32)

RunTokens == {"/c", DefineAtLimit, DefineOverLimit, "a.c", "/Tpb.cpp"}

\* CL, _CL_ and VS_UNICODE_OUTPUT: none set, or all three.
RunEnvironments ==
  {<<EnvUnset, EnvUnset, EnvUnset>>, <<EnvValue("/c"), EnvValue("c.c"), EnvValue("1")>>}

MissingPath == <<109>>           \* m

ReportDocs ==
  {NoReport, JsonReport("2.0", <<>>, <<>>), JsonReport("1.0", <<>>, <<>>),
   JsonReport("1.0", UserPath, <<SysLower>>), JsonReport("1.0", <<>>, <<MissingPath>>)}

\* The ways a compiler run ends: success, or failure with a diagnostic.
RunEndings == {<<0, "a.c", "">>, <<2, "a.c", "a.c(1): error C2143">>}

InputNames(p) == {p.m_input_files[i].name : i \in 1..Len(p.m_input_files)}

\* The miss lists: no, one or two of the input files, by name.
MissLists(p) ==
  {names \in BoundedSeq(InputNames(p), 2) :
     \A i \in 1..Len(names) : \A j \in 1..Len(names) : names[i] = names[j] => i = j}

\* What the compiler can do with these inputs on its command line.
Outcomes(names) ==
  {[return_code |-> e[1], std_out |-> e[2], std_err |-> e[3], reports |-> reports] :
     e \in RunEndings, reports \in [{names[k] : k \in 1..Len(names)} -> ReportDocs]}

RunInit ==
  /\ p_argv \in {<<"cl.exe">> \o a : a \in BoundedSeq(RunTokens, MaxRunArgs)}
  /\ \E e \in RunEnvironments : p_cl = e[1] /\ p_clpost = e[2] /\ r_vs = e[3]
  /\ p_fs = RspFs
  /\ ParserStart
  /\ w_pc = "constructed"
  /\ w_version = version_t(14, 29, 30133, 0)
  /\ w_resolved = ""
  /\ w_include_env = <<83, 92>>
  /\ w_include_paths = msvc_wrapper_t(w_include_env)
  /\ w_dependencies = EmptyMap
  /\ w_disk = [f \in {SysLower, UserPath} |-> 1]
  /\ NoCall
  /\ r_miss = <<>>
  /\ r_outcome = <<>>
  /\ r_runs = <<>>
  /\ r_log = <<>>
  /\ r_result = <<>>

\* The state run_for_miss leaves, given what the call did.
AfterRunForMiss(names, outcome, r) ==
  /\ r_miss' = names
  /\ r_outcome' = outcome
  /\ r_runs' = r.runs
  /\ r_log' = r.log
  /\ r_result' = [thrown |-> r.thrown, value |-> r.result]
  /\ w_dependencies' = r.dependencies
  /\ w_miss' = r.records
  /\ w_raised' = r.thrown
  /\ w_src_deps' = [k \in 1..Len(names) |->
                      get_source_dependencies(outcome.reports[names[k]]).dependencies]

RunMisses ==
  /\ w_pc = "resolved"
  /\ w_resolved = ""
  /\ \E names \in MissLists(p_model) : \E outcome \in Outcomes(names) :
       AfterRunForMiss(names, outcome,
                       run_for_miss_call(p_model, p_argv, Environment(p_cl, p_clpost, r_vs),
                                         names, outcome, w_dependencies, w_disk,
                                         w_include_paths))
  /\ w_before' = w_dependencies
  /\ w_op' = "run_for_miss"
  /\ w_entry' = EmptyMap
  /\ w_hit' = FALSE
  /\ w_pc' = "ran"
  /\ UNCHANGED <<resolveVars, w_include_env, w_include_paths, w_disk, r_vs, parserVars,
                 codecVars, trackerVars, versionVars, toolVars, buildVars, nestVars>>

RunNext ==
  \/ ResolveArgs
  \/ RunMisses

\* The arguments the child was given: its argv after argv[0], joined, or the
\* content of its response file.
CommandLine(child) == IF child.rsp = "" THEN join(Tail(child.argv), " ") ELSE child.rsp

\* The /Tc, /Tp or bare form of the missed input of that name.
MissForm(name) ==
  LET file == input_file_by_name(p_model, name).file IN Written(file.type, file.name)

\* The places of the log where the compiler was run.
RunEntries == {i \in 1..Len(r_log) : r_log[i][1] = "run"}

\* C19: for a non-empty miss list run_for_miss runs the compiler exactly once,
\* with merge(SkipInputs), then the form of each missed input in the order of
\* the list, then the /sourceDependencies argument; no other input file is
\* on that command line; the reports are read and the tracking logs written
\* only after that run.
C19_SingleRun ==
  (w_pc = "ran" /\ r_miss # <<>>) =>
    /\ Len(r_runs) = 1
    /\ Cardinality(RunEntries) = 1
    /\ CommandLine(r_runs[1]) =
         join(merge(p_model, "kSkipInputs")
                \o [k \in 1..Len(r_miss) |-> MissForm(r_miss[k])]
                \o <<"/sourceDependencies " \o PreprocDir>>, " ")
    /\ r_runs[1].rsp = "" =>
         /\ Len(r_runs[1].argv) = 1 + Len(merge(p_model, "kSkipInputs")) + Len(r_miss) + 1
         /\ \A i \in 1..Len(p_model.m_input_files) :
              p_model.m_input_files[i].name \notin {r_miss[k] : k \in 1..Len(r_miss)} =>
                \A j \in 2..Len(r_runs[1].argv) :
                  r_runs[1].argv[j] # Written(p_model.m_input_files[i].type,
                                              p_model.m_input_files[i].name)
    /\ \A i \in 1..Len(r_log) :
         r_log[i][1] \in {"read", "write_logs"} => \A j \in RunEntries : j < i
    /\ \A i \in 1..Len(r_log) :
         r_log[i][1] \in {"add_source", "finalize_sources", "create_dir"} =>
           \A j \in RunEntries : i < j

\* C19 witness: of the three inputs a.c, /Tpb.cpp and c.c the second and the
\* first were missed; the compiler ran once with /Tpb.cpp then a.c and the
\* report directory, and both reports were read after it.
C19_Witness ==
  /\ w_pc = "ran"
  /\ p_argv = <<"cl.exe", "a.c", "/Tpb.cpp">>
  /\ p_clpost = EnvValue("c.c")
  /\ r_miss = <<"b.cpp", "a.c">>
  /\ Len(r_runs) = 1
  /\ r_runs[1].argv = <<"cl.exe", "/c", "/Tpb.cpp", "a.c", "/sourceDependencies T">>
  /\ r_log = <<(<<"add_source", "b.cpp">>), (<<"add_source", "a.c">>),
               (<<"finalize_sources", "">>), (<<"create_dir", "T">>), (<<"run", "cl.exe">>),
               (<<"read", "b.cpp">>), (<<"write_logs", "b.cpp">>),
               (<<"read", "a.c">>), (<<"write_logs", "a.c">>)>>

\* The report of a missed input can be read, and each of its dependencies
\* can be hashed or needs no hash.
ReportUsable(name) ==
  /\ ~get_source_dependencies(r_outcome.reports[name]).thrown
  /\ \A d \in {get_source_dependencies(r_outcome.reports[name]).dependencies[i] :
                 i \in 1..Len(get_source_dependencies(r_outcome.reports[name]).dependencies)} :
       \/ FileKey(d) \in DOMAIN w_disk
       \/ is_system_include(w_include_paths, d)

C20_ChildEnvironment ==
  \A i \in 1..Len(r_runs) :
    /\ \A name \in {ENV_CL_PREFIX, ENV_CL_POSTFIX, ENV_VS_OUTPUT_REDIRECTION} :
         ~r_runs[i].env[name].set
    /\ r_runs[i].argv[1] = p_argv[1]
    /\ r_runs[i].rsp # "" =>
         /\ Len(r_runs[i].rsp) > MaxCommandLine
         /\ r_runs[i].argv = <<p_argv[1], "@" \o RspPath>>
    /\ r_runs[i].rsp = "" => Len(join(Tail(r_runs[i].argv), " ")) <= MaxCommandLine

\* C20 witness: with CL, _CL_ and VS_UNICODE_OUTPUT set, a command line of
\* MaxCommandLine + 1 bytes went into a response file.
C20_Witness ==
  /\ w_pc = "ran"
  /\ p_cl.set /\ p_clpost.set /\ r_vs.set
  /\ Len(r_runs) = 1
  /\ Len(r_runs[1].rsp) = MaxCommandLine + 1
  /\ r_runs[1].argv = <<"cl.exe", "@R.rsp">>
  /\ ~r_runs[1].env[ENV_CL_PREFIX].set

(***************************************************************************)
(* get_build_files and the tracking log: the files bound to one input      *)
(***************************************************************************)

\* file::get_file_part: the part after the last separator, without its
\* extension when include_ext is FALSE.
get_file_part(path, include_ext) ==
  LET file_name == substr(path, LastOf(path, {"\\", "/"}, Len(path)))
      ext_pos == LastOf(file_name, {"."}, Len(file_name))
  IN  IF include_ext \/ ext_pos = 0 THEN file_name
      ELSE substr_n(file_name, 0, ext_pos - 1)

\* file::change_extension: the extension of the file part gives way to new_ext.
change_extension(path, new_ext) ==
  IF LastOf(path, {"."}, Len(path)) > LastOf(path, {"\\", "/"}, Len(path))
  THEN substr_n(path, 0, LastOf(path, {"."}, Len(path)) - 1) \o new_ext
  ELSE path \o new_ext

\* file::append_path: a separator is put between the two unless path ends in one.
append_path(path, append) ==
  IF path = "" \/ append = "" \/ SubSeq(path, Len(path), Len(path)) = "\\"
  THEN path \o append
  ELSE path \o "\\" \o append

\* file::resolve_path: a path without a drive is taken from the current directory.
resolve_path(path) ==
  IF Len(path) > 1 /\ SubSeq(path, 2, 2) = ":" THEN path ELSE "c:\\w\\" \o path

\* operator<< for an unsigned number: its decimal digits.
RECURSIVE Decimal(_)
Decimal(n) ==
  IF n < 10 THEN SubSeq(DecimalDigits, n + 1, n + 1)
  ELSE Decimal(n \div 10) \o SubSeq(DecimalDigits, (n % 10) + 1, (n % 10) + 1)

\* version_t::as_string(num_components)
RECURSIVE as_string_from(_, _, _)
as_string_from(srcs, i, count) ==
  IF i > count THEN ""
  ELSE (IF i > 1 THEN "." ELSE "") \o Decimal(srcs[i]) \o as_string_from(srcs, i + 1, count)

as_string(v, num_components) ==
  as_string_from(<<v.m_major, v.m_minor, v.m_build, v.m_qfe>>, 1, Min(4, num_components))

\* A plausible slip: /Y- is not looked at.
is_create_enabled_only(pch) == pch.create.enabled

\* pch_config_t::is_create
is_create(pch) == IF pch.ignore THEN FALSE ELSE pch.create.enabled

\* pch_config_t::output_path
output_path(pch, input_file, default_name) ==
  IF pch.path = "" THEN change_extension(input_file, ".pch")
  ELSE IF SubSeq(pch.path, Len(pch.path), Len(pch.path)) \in {"\\", "/"}
    THEN append_path(pch.path, default_name)
  ELSE change_extension(pch.path, ".pch")

\* env_var_t::as_bool: the variable is set to something other than an empty
\* string, 0, false, no or off.
as_bool(var) == var.set /\ lower_case(var.value) \notin {"", "0", "false", "no", "off"}

\* get_env: the value of the variable, "" when it is not set.
get_env(var) == IF var.set THEN var.value ELSE ""

\* tracking_log_t::tracking_log_t()
tracking_log_t(env) ==
  IF ~as_bool(env.TRACKER_ENABLED)
  THEN [m_enabled |-> FALSE, m_intermediate_dir |-> "", m_toolchain |-> "",
        m_sources |-> <<>>, m_root |-> ""]
  ELSE [m_enabled |-> TRUE,
        m_intermediate_dir |-> get_env(env.TRACKER_INTERMEDIATE),
        m_toolchain |-> get_env(env.TRACKER_TOOLCHAIN),
        m_sources |-> <<>>, m_root |-> ""]

\* One entry of a build_files_t: { path, true }.
build_file_t(path) == [path |-> path, required |-> TRUE]

\* std::replace(begin, end, '.', '_')
RECURSIVE replace_dots(_)
replace_dots(s) ==
  IF s = "" THEN ""
  ELSE (IF SubSeq(s, 1, 1) = "." THEN "_" ELSE SubSeq(s, 1, 1)) \o replace_dots(substr(s, 1))

\* A plausible slip: the log files are bound whether or not tracking is enabled.
tracking_log_get_build_files_always(tlog, filename) ==
  LET basename == replace_dots(get_file_part(filename, TRUE))
  IN  [id \in {"tlog_r", "tlog_w"} |->
         build_file_t(append_path(tlog.m_intermediate_dir,
                                  tlog.m_toolchain \o "." \o basename \o
                                    (IF id = "tlog_r" THEN ".read.1.tlog"
                                     ELSE ".write.1.tlog")))]

\* tracking_log_t::get_build_files
tracking_log_get_build_files(tlog, filename) ==
  IF ~tlog.m_enabled THEN EmptyMap
  ELSE LET basename == replace_dots(get_file_part(filename, TRUE))
       IN  [id \in {"tlog_r", "tlog_w"} |->
              build_file_t(append_path(tlog.m_intermediate_dir,
                                       tlog.m_toolchain \o "." \o basename \o
                                         (IF id = "tlog_r" THEN ".read.1.tlog"
                                          ELSE ".write.1.tlog")))]

\* tracking_log_t::fullpath
fullpath(path) == upper_case(resolve_path(path))

\* tracking_log_t::add_source
add_source(tlog, path) ==
  IF ~tlog.m_enabled THEN tlog
  ELSE [tlog EXCEPT !.m_sources = Append(@, fullpath(path))]

\* std::sort on a list of strings.
RECURSIVE sort(_)
sort(list) ==
  IF list = <<>> THEN <<>>
  ELSE LET i == CHOOSE i \in 1..Len(list) :
                  \A j \in 1..Len(list) : ~BytesLess(Bytes(list[j]), Bytes(list[i]))
       IN  <<list[i]>> \o sort(SubSeq(list, 1, i - 1) \o SubSeq(list, i + 1, Len(list)))

\* tracking_log_t::finalize_sources
finalize_sources(tlog) ==
  IF ~tlog.m_enabled THEN tlog
  ELSE [tlog EXCEPT !.m_sources = sort(tlog.m_sources),
                    !.m_root = "^" \o join(sort(tlog.m_sources), "|")]

\* tracking_log_t::write_logs: the files on disk once it returned.
write_logs(tlog, source, build_files, dependencies, written) ==
  IF ~tlog.m_enabled THEN written
  ELSE LET object_path == fullpath(build_files["object"].path)
           tlog_r == <<tlog.m_root, fullpath(source)>> \o dependencies \o <<object_path>>
           tlog_w == <<tlog.m_root>>
                       \o (IF "pch" \in DOMAIN build_files
                           THEN <<build_files["pch"].path>> ELSE <<>>)
                       \o <<object_path>>
       IN  MapSet(MapSet(written, build_files["tlog_r"].path,
                         upper_case(join(tlog_r, "\r\n"))),
                  build_files["tlog_w"].path, join(tlog_w, "\r\n"))

\* std::map::insert of a range: a key that is there already keeps its value.
map_insert(files, other) ==
  [id \in DOMAIN files \cup DOMAIN other |->
     IF id \in DOMAIN files THEN files[id] ELSE other[id]]

\* A plausible slip: the object file takes the name of the input in every case.
object_file_from_key(parser, key) ==
  parser.m_object_path \o get_file_part(key, FALSE) \o ".obj"

\* msvc_wrapper_t::get_build_files, the object file.
object_file(parser, key) ==
  IF ~obj_path_is_dir(parser)
  THEN (IF get_extension(parser.m_object_path) = ""
        THEN parser.m_object_path \o ".obj"
        ELSE parser.m_object_path)
  ELSE parser.m_object_path \o get_file_part(key, FALSE) \o ".obj"

\* msvc_wrapper_t::get_build_files
get_build_files(parser, vc_version, tlog, key) ==
  LET object == MapSet(EmptyMap, "object", build_file_t(object_file(parser, key)))
      files == IF is_create(parser.m_pch_config)
               THEN MapSet(object, "pch",
                           build_file_t(output_path(parser.m_pch_config, key,
                                                    "vc" \o as_string(vc_version, 1)
                                                      \o "0.pch")))
               ELSE object
  IN  map_insert(files, tracking_log_get_build_files(tlog, key))

MaxBuildOptions == 2

\* The inputs of the command line: one of them in a directory and with two dots.
BuildInputs == {<<"a.cpp">>, <<"s\\b.x.c">>, <<"a.cpp", "s\\b.x.c">>}

\* The object path as a file with and without extension and as a
\* directory, and the options of a precompiled header.
BuildOptions ==
  {"/Foout.o", "/Foout", "/Fod.x\\out", "/Fod.x\\", "/Foo/",
   "/Ycs.h", "/Y-", "/Fpp\\", "/Fpp/", "/Fpd.x\\q.x", "/Fpq"}

BuildVersions == {version_t(14, 27, 0, 0), version_t(15, 0, 1, 2)}

TrackerEnvironment(enabled, intermediate, toolchain) ==
  [TRACKER_ENABLED |-> enabled, TRACKER_INTERMEDIATE |-> intermediate,
   TRACKER_TOOLCHAIN |-> toolchain]

BuildEnvironments ==
  {TrackerEnvironment(EnvUnset, EnvUnset, EnvUnset),
   TrackerEnvironment(EnvValue("1"), EnvValue("i"), EnvValue("CL"))}

\* The wrapper as its constructor leaves it, for one command line.
BuildStart(argvs, environments) ==
  /\ p_argv \in argvs
  /\ p_cl = EnvValue("/c")
  /\ p_clpost = EnvUnset
  /\ p_fs = RspFs
  /\ ParserStart
  /\ w_pc = "constructed"
  /\ w_version \in BuildVersions
  /\ w_resolved = ""
  /\ LedgerIdle
  /\ b_env \in environments
  /\ m_tlog = tracking_log_t(b_env)
  /\ b_key = ""
  /\ b_files = EmptyMap
  /\ b_written = EmptyMap
  /\ b_op = "none"

BuildInit ==
  BuildStart({<<"cl.exe">> \o i \o o :
                i \in BuildInputs, o \in BoundedSeq(BuildOptions, MaxBuildOptions)},
             BuildEnvironments)

\* get_build_files(key) for one of the inputs of the command line.
GetBuildFiles ==
  /\ w_pc = "resolved"
  /\ w_resolved = ""
  /\ \E i \in 1..Len(p_model.m_input_files) :
       /\ b_key' = p_model.m_input_files[i].name
       /\ b_files' = get_build_files(p_model, w_version, m_tlog,
                                     p_model.m_input_files[i].name)
  /\ b_op' = "get_build_files"
  /\ UNCHANGED <<b_env, m_tlog, b_written, exceptBuild>>

BuildNext ==
  \/ ResolveArgs
  \/ GetBuildFiles

\* No character of s is one of chars.
NoneOf(s, chars) == \A i \in 1..Len(s) : SubSeq(s, i, i) \notin chars

\* s is the base name of key without its extension: it starts after the
\* last separator and ends before the last dot of the file name, or at the
\* end of a file name without a dot.
IsBaseNameOf(s, key) ==
  \E i \in 0..Len(key), j \in 0..Len(key) :
    /\ i <= j
    /\ s = SubSeq(key, i + 1, j)
    /\ (i = 0 \/ SubSeq(key, i, i) \in {"\\", "/"})
    /\ NoneOf(SubSeq(key, i + 1, Len(key)), {"\\", "/"})
    /\ \/ j = Len(key) /\ NoneOf(s, {"."})
       \/ /\ j < Len(key)
          /\ SubSeq(key, j + 1, j + 1) = "."
          /\ NoneOf(SubSeq(key, j + 2, Len(key)), {"."})

\* The file name at the end of path has a dot in it.
HasExtension(path) ==
  \E i \in 1..Len(path) :
    /\ SubSeq(path, i, i) = "."
    /\ NoneOf(SubSeq(path, i + 1, Len(path)), {"\\", "/"})

\* The path names a directory: it is empty or ends in '\' or '/'.
IsDirectory(path) ==
  path = "" \/ SubSeq(path, Len(path), Len(path)) \in {"\\", "/"}

\* C21: get_build_files(key) binds 'object' to object_path, with '.obj'
\* appended iff object_path has no extension and whatever the key, when the
\* object path is not a directory; and to object_path followed by the base
\* name of the key without extension and '.obj' when the object path is a
\* directory (empty, or ending in '\' or '/').
C21_ObjectFile ==
  b_op = "get_build_files" =>
    /\ "object" \in DOMAIN b_files
    /\ IF IsDirectory(p_model.m_object_path)
       THEN \E s \in {SubSeq(b_key, i, j) : i \in 1..(Len(b_key) + 1), j \in 0..Len(b_key)} :
              /\ IsBaseNameOf(s, b_key)
              /\ b_files["object"].path = p_model.m_object_path \o s \o ".obj"
       ELSE b_files["object"].path =
              (IF HasExtension(p_model.m_object_path)
               THEN p_model.m_object_path
               ELSE p_model.m_object_path \o ".obj")

\* C21 witness: with /Fod.x\ and two inputs the object file of s\b.x.c is
\* d.x\b.x.obj.
C21_Witness ==
  /\ b_op = "get_build_files"
  /\ p_argv = <<"cl.exe", "a.cpp", "s\\b.x.c", "/Fod.x\\">>
  /\ b_key = "s\\b.x.c"
  /\ b_files["object"].path = "d.x\\b.x.obj"

\* result is path with the extension of its file name replaced by ".pch"
\* (added when the file name has none).
ExtensionReplaced(result, path) ==
  \E j \in 0..Len(path) :
    /\ result = SubSeq(path, 1, j) \o ".pch"
    /\ \/ j = Len(path) /\ ~HasExtension(path)
       \/ /\ j < Len(path)
          /\ SubSeq(path, j + 1, j + 1) = "."
          /\ NoneOf(SubSeq(path, j + 2, Len(path)), {".", "\\", "/"})

\* /Yc was given on the command line, and /Y- was.
YcGiven == \E i \in 2..Len(p_argv) : starts_with(p_argv[i], "/Yc")
YIgnoreGiven == \E i \in 2..Len(p_argv) : p_argv[i] = "/Y-"

\* C22: get_build_files registers a 'pch' build file if and only if /Yc was
\* given and /Y- was not, and its path is the input name with its extension
\* replaced by .pch when the /Fp path is empty, the /Fp path joined with
\* vc<major>0.pch when the /Fp path ends in '\' or '/', and the /Fp path
\* with its extension replaced by .pch otherwise.
C22_PchFile ==
  b_op = "get_build_files" =>
    /\ "pch" \in DOMAIN b_files <=> (YcGiven /\ ~YIgnoreGiven)
    /\ "pch" \in DOMAIN b_files =>
         IF p_model.m_pch_config.path = ""
         THEN ExtensionReplaced(b_files["pch"].path, b_key)
         ELSE IF IsDirectory(p_model.m_pch_config.path)
           THEN \E sep \in {"", "\\", "/"} :
                  b_files["pch"].path =
                    p_model.m_pch_config.path \o sep \o "vc"
                      \o ToString(w_version.m_major) \o "0.pch"
         ELSE ExtensionReplaced(b_files["pch"].path, p_model.m_pch_config.path)

\* C22 witness: cl a.cpp /Ycs.h /Fpp\ with VC tools 15 binds pch to a file
\* named vc150.pch in p\.
C22_Witness ==
  /\ b_op = "get_build_files"
  /\ p_argv = <<"cl.exe", "a.cpp", "/Ycs.h", "/Fpp\\">>
  /\ w_version.m_major = 15
  /\ "pch" \in DOMAIN b_files
  /\ b_files["pch"].path = "p\\vc150.pch"

(***************************************************************************)
(* Nested response files                                                   *)
(***************************************************************************)

\* One call in progress: parse with the lists it hands to parse_list (the
\* tokens of CL, argv[1..], the tokens of _CL_), or parse_file with the
\* tokens of each line of the file.  i is the list being parsed and it the
\* iterator of its parse_list.
call_t(file, lists) == [file |-> file, lists |-> lists, i |-> 1, it |-> 1]

\* cmdline_parser_t::parse: the parse_line and parse_list calls it makes.
parse_calls(argv, cl_prefix, cl_postfix) ==
  call_t(FALSE,
         (IF cl_prefix.set THEN <<split_args(cl_prefix.value)>> ELSE <<>>)
           \o (IF Len(argv) > 1 THEN <<Tail(argv)>> ELSE <<>>)
           \o (IF cl_postfix.set THEN <<split_args(cl_postfix.value)>> ELSE <<>>))

\* read_lines with parse_line as the callback: one parse_list call for each line.
read_lines(name, fs) == call_t(TRUE, [k \in 1..Len(fs[name]) |-> split_args(fs[name][k])])

\* A plausible slip: the limit is reached one level early.
enter_file_at_limit(p, name, fs) ==
  LET entered == [p EXCEPT !.m_command_file_depth = @ + 1]
  IN  IF entered.m_command_file_depth >= MAX_COMMAND_FILE_DEPTH THEN Throw(entered)
      ELSE IF name \notin DOMAIN fs THEN Throw(entered)
      ELSE entered

\* parse_file up to read_lines: the counter goes up, and the call ends with
\* an exception past the limit or when the file cannot be read.
enter_file(p, name, fs) ==
  LET entered == [p EXCEPT !.m_command_file_depth = @ + 1]
  IN  IF entered.m_command_file_depth > MAX_COMMAND_FILE_DEPTH THEN Throw(entered)
      ELSE IF name \notin DOMAIN fs THEN Throw(entered)
      ELSE entered

\* parse_file after read_lines: m_command_file_depth--.
leave_file(p) == [p EXCEPT !.m_command_file_depth = @ - 1]

\* The innermost call, and the stack with that call replaced.
Top == n_stack[Len(n_stack)]
WithTop(call) == [n_stack EXCEPT ![Len(n_stack)] = call]

\* The innermost parse_list is at an item of its list.
AtItem ==
  /\ p_pc = "parsing"
  /\ ~p_model.err
  /\ n_stack # <<>>
  /\ Top.i <= Len(Top.lists)
  /\ Top.it <= Len(Top.lists[Top.i])

\* parse(argv) is called.
BeginParse ==
  /\ p_pc = "start"
  /\ p_pc' = "parsing"
  /\ n_stack' = <<parse_calls(p_argv, p_cl, p_clpost)>>
  /\ UNCHANGED <<p_model, exceptNest>>

\* One turn of the while loop of parse_list for an option or an input
\* file: the item is parsed and the iterator moves on, or /link ends the
\* list.
ParseItem ==
  /\ AtItem
  /\ ~starts_with(Top.lists[Top.i][Top.it], "@") \/ get_option(Top.lists[Top.i][Top.it]).ok
  /\ LET list == Top.lists[Top.i]
         opt == get_option(list[Top.it])
         s == IF opt.ok THEN parse_option(p_model, list, Top.it, opt.option)
              ELSE Step(append_file(p_model, list[Top.it], "kUnknown"), Top.it, FALSE)
     IN  /\ p_model' = s.p
         /\ n_stack' = WithTop(IF s.brk THEN [Top EXCEPT !.i = @ + 1, !.it = 1]
                               ELSE [Top EXCEPT !.it = s.it + 1])
  /\ UNCHANGED <<p_pc, exceptNest>>

\* The item is @file: parse_file is entered.
EnterFile ==
  /\ AtItem
  /\ starts_with(Top.lists[Top.i][Top.it], "@")
  /\ ~get_option(Top.lists[Top.i][Top.it]).ok
  /\ LET name == substr(Top.lists[Top.i][Top.it], 1)
     IN  /\ p_model' = enter_file(p_model, name, p_fs)
         /\ n_stack' = IF enter_file(p_model, name, p_fs).err THEN n_stack
                       ELSE Append(n_stack, read_lines(name, p_fs))
  /\ UNCHANGED <<p_pc, exceptNest>>

\* The while loop of parse_list ends: the next line, or the next call of parse.
EndList ==
  /\ p_pc = "parsing"
  /\ ~p_model.err
  /\ n_stack # <<>>
  /\ Top.i <= Len(Top.lists)
  /\ Top.it > Len(Top.lists[Top.i])
  /\ n_stack' = WithTop([Top EXCEPT !.i = @ + 1, !.it = 1])
  /\ UNCHANGED <<p_pc, p_model, exceptNest>>

\* read_lines is through: parse_file brings the counter down and returns to
\* the parse_list that called it, whose iterator moves on.
LeaveFile ==
  /\ p_pc = "parsing"
  /\ ~p_model.err
  /\ n_stack # <<>>
  /\ Top.file
  /\ Top.i > Len(Top.lists)
  /\ p_model' = leave_file(p_model)
  /\ n_stack' = [SubSeq(n_stack, 1, Len(n_stack) - 1) EXCEPT ![Len(n_stack) - 1].it = @ + 1]
  /\ UNCHANGED <<p_pc, exceptNest>>

\* parse returns, or an exception leaves it.
EndParse ==
  /\ p_pc = "parsing"
  /\ \/ p_model.err
     \/ /\ Len(n_stack) = 1
        /\ ~Top.file
        /\ Top.i > Len(Top.lists)
  /\ p_pc' = "parsed"
  /\ n_stack' = <<>>
  /\ UNCHANGED <<p_model, exceptNest>>

MaxNestArgs == 1

\* The last file of the chain n1, n2, ...: file k holds @n(k+1), the last
\* one a define.
ChainEnd == MAX_COMMAND_FILE_DEPTH + 1

ChainFile(k) == "n" \o Decimal(k)

\* A file that includes itself, two files that include each other, the
\* chain, and a file that enters the chain twice.
NestFs ==
  [name \in {"self.rsp", "ping.rsp", "pong.rsp", "twice.rsp"}
              \cup {ChainFile(k) : k \in 1..ChainEnd} |->
     IF name = "self.rsp" THEN <<"/DS @self.rsp">>
     ELSE IF name = "ping.rsp" THEN <<"@pong.rsp">>
     ELSE IF name = "pong.rsp" THEN <<"/DP", "@ping.rsp">>
     ELSE IF name = "twice.rsp" THEN <<"@" \o ChainFile(3), "@" \o ChainFile(3) \o " /DT">>
     ELSE IF name = ChainFile(ChainEnd) THEN <<"/DEND">>
     ELSE <<"@" \o ChainFile(1 + CHOOSE k \in 1..ChainEnd : name = ChainFile(k))>>]

NestTokens ==
  {"@self.rsp", "@ping.rsp", "@twice.rsp", "@" \o ChainFile(1), "@" \o ChainFile(2),
   "/DX", "a.c"}

NestInit ==
  /\ p_argv \in {<<"cl.exe">> \o a : a \in BoundedSeq(NestTokens, MaxNestArgs)}
  /\ p_cl \in {EnvUnset, EnvValue("@" \o ChainFile(2) \o " /link /DL")}
  /\ p_clpost = EnvUnset
  /\ p_fs = NestFs
  /\ ParserStart
  /\ n_stack = <<>>

NestNext ==
  \/ BeginParse
  \/ ParseItem
  \/ EnterFile
  \/ EndList
  \/ LeaveFile
  \/ EndParse

\* The parse_file calls in progress.
FileCalls == Cardinality({k \in DOMAIN n_stack : n_stack[k].file})

\* The response files whose nesting goes past the limit: the cycles, and
\* the chain entered at its first file.
TooDeep == {"@self.rsp", "@ping.rsp", "@" \o ChainFile(1)}

\* The times the last file of the chain is reached from the command line:
\* once from n2, on the hundredth level, twice from twice.rsp, and once
\* from CL.
ChainEnds ==
  Count(p_argv, "@" \o ChainFile(2)) + 2 * Count(p_argv, "@twice.rsp")
    + (IF p_cl.set THEN 1 ELSE 0)

NestingBounded ==
  /\ FileCalls <= MAX_COMMAND_FILE_DEPTH
  /\ ~p_model.err => p_model.m_command_file_depth = FileCalls
  /\ p_model.err => p_model.m_command_file_depth = MAX_COMMAND_FILE_DEPTH + 1
  /\ p_pc = "parsed" =>
       /\ p_model.err <=> \E i \in 2..Len(p_argv) : p_argv[i] \in TooDeep
       /\ ~p_model.err =>
            /\ p_model.m_command_file_depth = 0
            /\ Count(p_model.m_defines, "END") = ChainEnds

\* C23: parse terminates on every input, response files that include
\* themselves or each other included: when the nesting would go past 100
\* levels parsing stops with an error, a nesting of exactly 100 levels is
\* accepted, and once a response file has been parsed without error the
\* nesting counter is back at the value it had before the file was entered.
C23_Terminates == []NestingBounded /\ <>(p_pc = "parsed")

\* C23 witness: from cl @n2 the last file of the chain is being parsed on
\* the hundredth level, without error.
C23_Witness ==
  /\ p_pc = "parsing"
  /\ p_argv = <<"cl.exe", "@" \o ChainFile(2)>>
  /\ ~p_model.err
  /\ FileCalls = MAX_COMMAND_FILE_DEPTH
  /\ p_model.m_command_file_depth = MAX_COMMAND_FILE_DEPTH
  /\ p_model.m_defines = <<"END">>

(***************************************************************************)
(* Drive letters of the paths the parser stores                            *)
(***************************************************************************)

\* The paths stored from /Fd, /Fo, /Fp and /I.
StoredPaths(p) ==
  ({p.m_pdb_path, p.m_object_path, p.m_pch_config.path}
     \cup {p.m_includes[i] : i \in 1..Len(p.m_includes)}) \ {""}

\* The items of the command line and of the response files.
ItemsOf(list) == {list[j] : j \in 1..Len(list)}

FileItems(lines) == UNION {ItemsOf(split_args(lines[k])) : k \in 1..Len(lines)}

GivenItems == ItemsOf(Tail(p_argv)) \cup UNION {FileItems(p_fs[f]) : f \in DOMAIN p_fs}

\* s is the end of an item as it was given, but for the case of its first
\* character.
GivenButFirst(s) ==
  \E item \in GivenItems : \E k \in 0..(Len(item) - 1) :
    /\ substr(s, 1) = substr(item, k + 1)
    /\ upper_char(SubSeq(s, 1, 1)) = upper_char(SubSeq(item, k + 1, k + 1))

\* C24: every path stored by the parser from /Fd, /Fo, /Fp and /I is drive
\* letter canonicalized: whenever its second character is ':' its first
\* character is upper-case, for paths of any length, a two-character path
\* such as c: included, and all other characters are unchanged.
C24_Original ==
  p_pc # "start" =>
    \A s \in StoredPaths(p_model) :
      /\ (Len(s) >= 2 /\ SubSeq(s, 2, 2) = ":") =>
           IndexIn(SubSeq(s, 1, 1), UpperLetters) # 0
      /\ GivenButFirst(s)

\* C24 witness: cl /Foc: leaves the object path c: as it was given.
C24_Witness ==
  /\ p_pc = "parsed"
  /\ p_argv = <<"cl.exe", "/Foc:">>
  /\ p_model.m_object_path = "c:"

\* What sanitize_path does: the first character of a stored path of more
\* than two characters is upper-case when the second is ':', and nothing
\* else is changed.
DriveLetterAsCoded ==
  p_pc # "start" =>
    \A s \in StoredPaths(p_model) :
      /\ (Len(s) > 2 /\ SubSeq(s, 2, 2) = ":") =>
           IndexIn(SubSeq(s, 1, 1), UpperLetters) # 0
      /\ GivenButFirst(s)

(***************************************************************************)
(* The ledger over the calls of one wrapper instance                       *)
(***************************************************************************)

\* One step of the wrapper: what the ledger held stays as it was; a record
\* built by run_for_miss and a hit accepted by filter_cache_hit take the
\* digest the ledger held for a path, whatever the file is now; and a path
\* that was not in the ledger and cannot be hashed is not in it afterwards.
LedgerStep ==
  /\ \A path \in DOMAIN w_dependencies :
       /\ path \in DOMAIN w_dependencies'
       /\ w_dependencies'[path] = w_dependencies[path]
  /\ w_op' = "run_for_miss" =>
       \A k \in 1..Len(w_miss') : \A path \in DOMAIN w_miss'[k] \cap DOMAIN w_dependencies :
         w_miss'[k][path] = w_dependencies[path]
  /\ (w_op' = "filter_cache_hit" /\ w_hit') =>
       \A include \in DOMAIN w_entry' \cap DOMAIN w_dependencies :
         w_entry'[include] = w_dependencies[include]
  /\ w_op' = "filter_cache_hit" =>
       \A include \in DOMAIN w_entry' :
         (include \notin DOMAIN w_dependencies /\ FileKey(include) \notin DOMAIN w_disk)
           => include \notin DOMAIN w_dependencies'

\* C25: within one wrapper instance the dependency ledger only grows: once
\* a digest has been recorded for a path by filter_cache_hit or run_for_miss,
\* no later filter_cache_hit or run_for_miss call removes that path or
\* changes its digest, and every later lookup of that path returns the first
\* recorded digest without hashing the file again; a filter_cache_hit that
\* ends in a hashing failure leaves the ledger entry for that path absent.
C25_LedgerGrows == [][LedgerStep]_vars

\* C25 witness: run_for_miss stored for u\b the digest the ledger held from
\* an earlier call, although the file has changed since.
C25_Witness ==
  /\ w_op = "run_for_miss"
  /\ ~w_raised
  /\ UserPath \in DOMAIN w_before
  /\ w_before[UserPath] = Digest(1)
  /\ UserPath \in DOMAIN w_disk
  /\ w_disk[UserPath] = 2
  /\ UserPath \in DOMAIN w_miss[1]
  /\ w_miss[1][UserPath] = Digest(1)
  /\ w_dependencies[UserPath] = Digest(1)

(***************************************************************************)
(* The tracking log of one wrapper instance                                *)
(***************************************************************************)

MaxSources == 1

\* TRACKER_ENABLED not set, set to values that mean no, and to values that
\* mean yes.
TrackerEnvironments ==
  {TrackerEnvironment(EnvUnset, EnvValue("i"), EnvValue("CL"))}
    \cup {TrackerEnvironment(EnvValue(v), EnvValue("i"), EnvValue("CL")) :
            v \in {"", "0", "OFF", "1", "Yes"}}

TrackerArgvs ==
  {<<"cl.exe", "a.cpp">>, <<"cl.exe", "a.cpp", "/Ycs.h">>,
   <<"cl.exe", "b.c", "s\\a.x.c", "/Fod.x\\">>}

\* What the compiler reported as the includes of an input.
TrackerDependencies == {<<>>, <<"c:\\i\\h.h">>}

TlogInit ==
  /\ BuildStart(TrackerArgvs, TrackerEnvironments)
  /\ w_version = version_t(14, 27, 0, 0)

\* m_tlog.add_source(path) for an input of the command line.
AddSource ==
  /\ w_pc = "resolved"
  /\ w_resolved = ""
  /\ Len(m_tlog.m_sources) < MaxSources
  /\ \E i \in 1..Len(p_model.m_input_files) :
       m_tlog' = add_source(m_tlog, p_model.m_input_files[i].name)
  /\ b_op' = "add_source"
  /\ UNCHANGED <<b_env, b_key, b_files, b_written, exceptBuild>>

\* m_tlog.finalize_sources()
FinalizeSources ==
  /\ w_pc = "resolved"
  /\ w_resolved = ""
  /\ m_tlog' = finalize_sources(m_tlog)
  /\ b_op' = "finalize_sources"
  /\ UNCHANGED <<b_env, b_key, b_files, b_written, exceptBuild>>

\* m_tlog.write_logs(file_name, build_files, src_deps) for the input whose
\* build files get_build_files gave last.
WriteLogs ==
  /\ w_pc = "resolved"
  /\ w_resolved = ""
  /\ b_key # ""
  /\ \E dependencies \in TrackerDependencies :
       b_written' = write_logs(m_tlog, b_key, b_files, dependencies, b_written)
  /\ b_op' = "write_logs"
  /\ UNCHANGED <<b_env, m_tlog, b_key, b_files, exceptBuild>>

TlogNext ==
  \/ ResolveArgs
  \/ GetBuildFiles
  \/ AddSource
  \/ FinalizeSources
  \/ WriteLogs

\* TRACKER_ENABLED was truthy when the wrapper was constructed.
TrackerTruthy == b_env.TRACKER_ENABLED.set /\ b_env.TRACKER_ENABLED.value \in {"1", "Yes"}

\* The log is enabled exactly when the variable was truthy, and the build
\* files of an input hold tlog_r and tlog_w, and no other entry of the log,
\* exactly then.
TlogBound ==
  /\ m_tlog.m_enabled <=> TrackerTruthy
  /\ b_key # "" =>
       IF TrackerTruthy
       THEN DOMAIN b_files \ {"object", "pch"} = {"tlog_r", "tlog_w"}
       ELSE DOMAIN b_files \ {"object", "pch"} = {}

\* With the log disabled no call changes the log or writes a file.
TlogStep == ~TrackerTruthy => (m_tlog' = m_tlog /\ b_written' = b_written)

\* C26: the tracking log is enabled if and only if TRACKER_ENABLED is truthy
\* at construction: when disabled, get_build_files returns no entries (no
\* tlog_r or tlog_w is bound for any input) and add_source, finalize_sources
\* and write_logs change no state and write no file; when enabled,
\* get_build_files returns exactly the two entries tlog_r and tlog_w for
\* every input.
C26_TrackingGate == []TlogBound /\ [][TlogStep]_vars

\* C26 witness: with TRACKER_ENABLED=0, write_logs was called for a.cpp,
\* whose build files hold the object file alone, and no file was written.
C26_Witness ==
  /\ b_op = "write_logs"
  /\ b_env.TRACKER_ENABLED = EnvValue("0")
  /\ ~m_tlog.m_enabled
  /\ p_argv = <<"cl.exe", "a.cpp">>
  /\ b_key = "a.cpp"
  /\ DOMAIN b_files = {"object"}
  /\ b_written = EmptyMap
  /\ m_tlog.m_sources = <<>>

(***************************************************************************)
(* Specifications                                                          *)
(***************************************************************************)

CodecIdle ==
  /\ ce_pc = "off"
  /\ ce_entry = NoEntry
  /\ ce_ver = 0
  /\ ce_pairs = <<>>
  /\ ce_trunc = FALSE
  /\ ce_blob = <<>>
  /\ ce_out = DecodeError

TrackerIdle ==
  /\ t_pc = "off"
  /\ t_enabled = FALSE
  /\ t_modules = {}
  /\ t_exports = {}
  /\ handle = "null"
  /\ t_resolved = {}
  /\ t_releases = 0
  /\ t_calls = <<>>

ParserIdle ==
  /\ p_pc = "off"
  /\ p_argv = <<>>
  /\ p_cl = EnvUnset
  /\ p_clpost = EnvUnset
  /\ p_fs = <<>>
  /\ p_model = cmdline_parser_t
  /\ p_mode = "kAll"
  /\ p_merged = <<>>
  /\ p_split = <<0, 0>>
  /\ p_alt = cmdline_parser_t

WrapperIdle ==
  /\ w_pc = "off"
  /\ w_version = version_t(0, 0, 0, 0)
  /\ w_resolved = ""
  /\ LedgerIdle

VersionIdle ==
  /\ v_pc = "off"
  /\ v_a = version_t(0, 0, 0, 0)
  /\ v_b = version_t(0, 0, 0, 0)
  /\ v_c = version_t(0, 0, 0, 0)
  /\ v_cmp = <<>>
  /\ v_packed = <<0, 0, 0, 0>>
  /\ v_back = version_t(0, 0, 0, 0)

ToolIdle ==
  /\ tv_pc = "off"
  /\ tv_host = EnvUnset
  /\ tv_target = EnvUnset
  /\ tv_version = EnvUnset
  /\ tv_path = <<>>
  /\ tv_out = <<>>

RunIdle ==
  /\ r_vs = EnvUnset
  /\ r_miss = <<>>
  /\ r_outcome = <<>>
  /\ r_runs = <<>>
  /\ r_log = <<>>
  /\ r_result = <<>>

BuildIdle ==
  /\ b_env = <<>>
  /\ m_tlog = <<>>
  /\ b_key = ""
  /\ b_files = EmptyMap
  /\ b_written = EmptyMap
  /\ b_op = "none"

NestIdle ==
  /\ n_stack = <<>>

InitCodec ==
  /\ CodecInit
  /\ TrackerIdle
  /\ ParserIdle
  /\ WrapperIdle
  /\ VersionIdle
  /\ ToolIdle
  /\ RunIdle
  /\ BuildIdle
  /\ NestIdle

SpecCodec == InitCodec /\ [][CodecNext]_vars

InitTracker ==
  /\ TrackerInit
  /\ CodecIdle
  /\ ParserIdle
  /\ WrapperIdle
  /\ VersionIdle
  /\ ToolIdle
  /\ RunIdle
  /\ BuildIdle
  /\ NestIdle

SpecTracker == InitTracker /\ [][TrackerNext]_vars

InitParser ==
  /\ ParserInit
  /\ CodecIdle
  /\ TrackerIdle
  /\ WrapperIdle
  /\ VersionIdle
  /\ ToolIdle
  /\ RunIdle
  /\ BuildIdle
  /\ NestIdle

SpecParser == InitParser /\ [][ParserNext]_vars

InitRsp ==
  /\ RspInit
  /\ CodecIdle
  /\ TrackerIdle
  /\ WrapperIdle
  /\ VersionIdle
  /\ ToolIdle
  /\ RunIdle
  /\ BuildIdle
  /\ NestIdle

SpecRsp == InitRsp /\ [][RspNext]_vars

InitNest ==
  /\ NestInit
  /\ CodecIdle
  /\ TrackerIdle
  /\ WrapperIdle
  /\ VersionIdle
  /\ ToolIdle
  /\ RunIdle
  /\ BuildIdle

\* Nothing stops the parser between two steps.
SpecNest == InitNest /\ [][NestNext]_vars /\ WF_vars(NestNext)

InitEnv ==
  /\ EnvInit
  /\ CodecIdle
  /\ TrackerIdle
  /\ WrapperIdle
  /\ VersionIdle
  /\ ToolIdle
  /\ RunIdle
  /\ BuildIdle
  /\ NestIdle

SpecEnv == InitEnv /\ [][EnvNext]_vars

InitLink ==
  /\ LinkInit
  /\ CodecIdle
  /\ TrackerIdle
  /\ WrapperIdle
  /\ VersionIdle
  /\ ToolIdle
  /\ RunIdle
  /\ BuildIdle
  /\ NestIdle

SpecLink == InitLink /\ [][LinkNext]_vars

InitVersion ==
  /\ VersionInit
  /\ CodecIdle
  /\ TrackerIdle
  /\ ParserIdle
  /\ WrapperIdle
  /\ ToolIdle
  /\ RunIdle
  /\ BuildIdle
  /\ NestIdle

SpecVersion == InitVersion /\ [][VersionNext]_vars

InitTool ==
  /\ ToolInit
  /\ CodecIdle
  /\ TrackerIdle
  /\ ParserIdle
  /\ WrapperIdle
  /\ VersionIdle
  /\ RunIdle
  /\ BuildIdle
  /\ NestIdle

SpecTool == InitTool /\ [][ToolNext]_vars

InitRun ==
  /\ RunInit
  /\ CodecIdle
  /\ TrackerIdle
  /\ VersionIdle
  /\ ToolIdle
  /\ BuildIdle
  /\ NestIdle

SpecRun == InitRun /\ [][RunNext]_vars

InitResolve ==
  /\ ResolveInit
  /\ CodecIdle
  /\ TrackerIdle
  /\ VersionIdle
  /\ ToolIdle
  /\ RunIdle
  /\ BuildIdle
  /\ NestIdle

SpecResolve == InitResolve /\ [][ResolveNext]_vars

InitBuild ==
  /\ BuildInit
  /\ CodecIdle
  /\ TrackerIdle
  /\ VersionIdle
  /\ ToolIdle
  /\ RunIdle
  /\ NestIdle

SpecBuild == InitBuild /\ [][BuildNext]_vars

InitTlog ==
  /\ TlogInit
  /\ CodecIdle
  /\ TrackerIdle
  /\ VersionIdle
  /\ ToolIdle
  /\ RunIdle
  /\ NestIdle

SpecTlog == InitTlog /\ [][TlogNext]_vars

InitLedger ==
  /\ LedgerInit
  /\ ParserIdle
  /\ CodecIdle
  /\ TrackerIdle
  /\ VersionIdle
  /\ ToolIdle
  /\ RunIdle
  /\ BuildIdle
  /\ NestIdle

SpecLedger == InitLedger /\ [][LedgerNext]_vars

====
